---- MODULE Spec2Model ----
(***************************************************************************)
(* Score follower: the two ScoreViewerScroll variants (boolean reveal and  *)
(* three-state reveal), their Position Interpolator (findCurrentMeasure),  *)
(* the per-frame step (updateCursorPosition), the reveal-mode visibility   *)
(* sweep (updateMeasureVisibility) and click-to-seek (handleScoreClick).   *)
(*                                                                         *)
(* Times are integer ticks.  Progress values, relative timestamps and the  *)
(* highlight progress are exact rationals <<numerator, denominator>> with  *)
(* a positive denominator.  Layout lengths are integers in tenths of a     *)
(* layout unit, so that with UnitInPixels = 10 one tenth is one pixel.     *)
(***************************************************************************)
EXTENDS Integers, Sequences, FiniteSets, TLC

VARIABLES
    variant,           \* "bool": boolean-reveal viewer, "tri": three-state viewer
    anchors,           \* the anchors prop: a list of [measure, time]
    cbAnchors,         \* the anchor list captured by the current callbacks
    mode,              \* the mode prop: "PLAYBACK" or "RECORD"
    revealMode,        \* the revealMode prop: "OFF", "NOTE" or "CURTAIN"
    prevRevealMode,    \* prevRevealModeRef.current (three-state viewer)
    audioTime,         \* audioRef.current.currentTime
    isLoaded,          \* the isLoaded state
    lastMeasureIndex,  \* lastMeasureIndexRef.current
    noteMap,           \* noteMap.current: measure -> list of NoteData
    glyphMap,          \* beamsMap.current / measureContentMap.current
    opacity,           \* style.opacity of every DOM glyph
    color,             \* fill/stroke colour of every DOM glyph
    located,           \* what the last findCurrentMeasure call returned
    lastOp,            \* the handler that ran last, and how it ended
    scrollLeft,        \* scrollContainerRef.current.scrollLeft, in pixels
    smoothTarget,      \* where a scrollTo({behavior: 'smooth'}) under way ends
    containerWidth,    \* scrollContainerRef.current.clientWidth
    cursorLeft,        \* cursorRef.current.style.left, in pixels
    mounted,           \* the component is mounted
    osmdRef,           \* osmdRef.current: the engine instance, 0 for null
    loads,             \* the osmd.load promise of every instance created
    rafPending,        \* animationFrameRef holds a frame request not yet run
    rafOrphans,        \* frame requests not yet run that the ref no longer holds
    resizeTimers,      \* ms left on every pending setTimeout of handleResize
    burstRebuilds,     \* rebuilds run by the timers of the current resize burst
    renderTimers,      \* engines whose setTimeout(..., 100) after load is pending
    sheet,             \* the GraphicSheet.MeasureList the Geometry Mapper reads
    mapRuns,           \* calculateNoteMap calls so far
    svc,               \* projectService: the saveProject call under way
    sidebar            \* AnchorSidebar: its props and the last control used

vars == <<variant, anchors, cbAnchors, mode, revealMode, prevRevealMode,
          audioTime, isLoaded, lastMeasureIndex, noteMap, glyphMap,
          opacity, color, located, lastOp, scrollLeft, smoothTarget,
          containerWidth, cursorLeft, mounted, osmdRef, loads, rafPending,
          rafOrphans, resizeTimers, burstRebuilds, renderTimers, sheet,
          mapRuns, svc, sidebar>>

scrollVars == <<scrollLeft, smoothTarget, containerWidth, cursorLeft>>
lifeVars == <<mounted, osmdRef, loads, rafPending, rafOrphans>>
resizeVars == <<resizeTimers, burstRebuilds, renderTimers>>
mapperVars == <<sheet, mapRuns>>
viewerVars == <<variant, anchors, cbAnchors, mode, revealMode, prevRevealMode,
                audioTime, isLoaded, lastMeasureIndex, noteMap, glyphMap,
                opacity, color, located>>
\* what belongs to the sidebar and the persistence service, not to the viewer
outsideViewer == <<svc, sidebar>>

----------------------------------------------------------------------------
(* Bounds of the model *)

\* measures a generated anchor of the interpolator specification may name
MaxMeasure == 2
\* greatest tick of a generated anchor time, query time or audio time
MaxTime == 2
\* longest generated anchor list of the interpolator specification
MaxAnchors == 3

\* `let measureEndTime = Infinity`: any number above every time of the model
Infinity == 1000000

----------------------------------------------------------------------------
(* Exact rationals *)

Abs(n) == IF n < 0 THEN -n ELSE n

RECURSIVE GCD(_, _)
GCD(a, b) == IF b = 0 THEN a ELSE GCD(b, a % b)

\* n / d in lowest terms, d > 0
Rat(n, d) == LET g == GCD(Abs(n), d) IN <<n \div g, d \div g>>
RatZero == Rat(0, 1)
RatOne == Rat(1, 1)
RatLe(p, q) == p[1] * q[2] <= q[1] * p[2]
RatLt(p, q) == p[1] * q[2] < q[1] * p[2]
RatEq(p, q) == p[1] * q[2] = q[1] * p[2]
RatMax(p, q) == IF RatLt(p, q) THEN q ELSE p
RatMin(p, q) == IF RatLt(q, p) THEN q ELSE p
RatAdd(p, q) == Rat(p[1] * q[2] + q[1] * p[2], p[2] * q[2])
RatSub(p, q) == Rat(p[1] * q[2] - q[1] * p[2], p[2] * q[2])
RatMul(p, q) == Rat(p[1] * q[1], p[2] * q[2])

\* what a handler of the viewer leaves in lastOp ("idle": none ran since the
\* props or the audio clock last changed): its name, how it ended, the measure it
\* passed to the visibility sweep (0: the sweep did not run) and, for a
\* click, the measure the hit test found (0: none)
Op(name, result, swept) ==
    [op |-> name, result |-> result, swept |-> swept, hit |-> 0]

\* no smooth scroll is under way
NoScroll == <<-1, 1>>
\* the cursor div as rendered, before any frame has placed it
NoCursor == <<-1, 1>>
\* the scroll container at rest at offset 0, with client width w
ScrollAtRest(w) ==
    /\ scrollLeft = RatZero /\ smoothTarget = NoScroll /\ containerWidth = w
    /\ cursorLeft = NoCursor
\* no resize timer is pending
NoTimers == resizeTimers = << >> /\ burstRebuilds = 0 /\ renderTimers = {}
\* no saveProject call, no sidebar
NoSave ==
    [pc |-> "idle", title |-> "", audioFile |-> << >>, xmlFile |-> << >>,
     anchors |-> << >>, now |-> 0, log |-> << >>, replies |-> << >>,
     audioUrl |-> << >>,
     xmlUrl |-> << >>, outcome |-> "none", error |-> "", row |-> << >>]
NoSidebar ==
    [shown |-> FALSE, anchors |-> << >>, mode |-> "", provided |-> {},
     call |-> [handler |-> "none", measure |-> 0, time |-> <<-1, 1>>,
               mode |-> ""]]
OutsideIdle == svc = NoSave /\ sidebar = NoSidebar

----------------------------------------------------------------------------
(* Position Interpolator *)

Anchor(m, t) == [measure |-> m, time |-> t]

\* Array.prototype.sort is stable: an element goes after every element that
\* does not compare greater than it
\* mutant: an element goes before the elements that compare equal to it
RECURSIVE InsertStable_BeforeEquals(_, _, _)
InsertStable_BeforeEquals(s, a, key) ==
    IF s = <<>> THEN <<a>>
    ELSE IF s[Len(s)][key] < a[key] THEN Append(s, a)
    ELSE Append(InsertStable_BeforeEquals(SubSeq(s, 1, Len(s) - 1), a, key),
                s[Len(s)])

RECURSIVE InsertStable(_, _, _)
InsertStable(s, a, key) ==
    IF s = <<>> THEN <<a>>
    ELSE IF s[Len(s)][key] <= a[key] THEN Append(s, a)
    ELSE Append(InsertStable(SubSeq(s, 1, Len(s) - 1), a, key), s[Len(s)])

RECURSIVE SortStable(_, _)
SortStable(s, key) ==
    IF s = <<>> THEN <<>>
    ELSE InsertStable(SortStable(SubSeq(s, 1, Len(s) - 1), key), s[Len(s)], key)

\* mutant: anchors.sort(...) without the spread sorts the caller's array
SortedCopy_InPlace(arr, key) ==
    [sorted |-> SortStable(arr, key), source |-> SortStable(arr, key)]

\* [...arr].sort(...): the sort works on a copy, the array it was given
\* (source) keeps its contents and order
SortedCopy(arr, key) ==
    [sorted |-> SortStable(arr, key), source |-> arr]

\* [...anchors].sort((a, b) => a.time - b.time)
SortByTime(s) == SortedCopy(s, "time").sorted

\* the for loop of findCurrentMeasure from index i on; cur holds
\* currentMeasure, measureStartTime and measureEndTime
RECURSIVE ScanAnchors(_, _, _, _)
ScanAnchors(sorted, i, time, cur) ==
    IF i > Len(sorted) THEN cur
    ELSE IF time >= sorted[i].time
         THEN ScanAnchors(sorted, i + 1, time,
                  [measure |-> sorted[i].measure,
                   start |-> sorted[i].time,
                   end |-> IF i + 1 <= Len(sorted) THEN sorted[i + 1].time
                           ELSE Infinity])
         ELSE cur

\* progress of a scan result: 0 unless the segment is bounded and not empty,
\* else (time - start) / (end - start) clamped to [0, 1]
SegmentProgress(time, cur) ==
    IF cur.end # Infinity /\ cur.end > cur.start
    THEN RatMax(RatZero, RatMin(RatOne, Rat(time - cur.start, cur.end - cur.start)))
    ELSE RatZero

\* mutant: the unbounded last segment counts as complete
findCurrentMeasure_LastSegmentDone(anchorList, time) ==
    IF anchorList = <<>> THEN [measure |-> 1, progress |-> RatZero]
    ELSE LET cur == ScanAnchors(SortByTime(anchorList), 1, time,
                        [measure |-> 1, start |-> 0, end |-> Infinity])
         IN  [measure |-> cur.measure,
              progress |-> IF cur.end = Infinity THEN RatOne
                           ELSE SegmentProgress(time, cur)]

\* mutant: the scan runs over the list as given, without the sort by time
findCurrentMeasure_NoSort(anchorList, time) ==
    IF anchorList = <<>> THEN [measure |-> 1, progress |-> RatZero]
    ELSE LET cur == ScanAnchors(anchorList, 1, time,
                        [measure |-> 1, start |-> 0, end |-> Infinity])
         IN  [measure |-> cur.measure, progress |-> SegmentProgress(time, cur)]

\* mutant: the defaults are a zero-based measure index
findCurrentMeasure_ZeroBased(anchorList, time) ==
    IF anchorList = <<>> THEN [measure |-> 0, progress |-> RatZero]
    ELSE LET cur == ScanAnchors(SortByTime(anchorList), 1, time,
                        [measure |-> 0, start |-> 0, end |-> Infinity])
         IN  [measure |-> cur.measure, progress |-> SegmentProgress(time, cur)]

findCurrentMeasure(anchorList, time) ==
    IF anchorList = <<>> THEN [measure |-> 1, progress |-> RatZero]
    ELSE LET cur == ScanAnchors(SortByTime(anchorList), 1, time,
                        [measure |-> 1, start |-> 0, end |-> Infinity])
         IN  [measure |-> cur.measure, progress |-> SegmentProgress(time, cur)]

----------------------------------------------------------------------------
(* Inputs of the interpolator specification *)

AnchorValues == { Anchor(m, t) : m \in 1..MaxMeasure, t \in 0..MaxTime }

SeqsUpTo(S, n) == UNION { [1..k -> S] : k \in 0..n }

\* the worked anchor tables of the documentation, in half seconds:
\* [(1,0)] and [(1,0),(2,10),(4,25)]
SingleAnchorTable == << Anchor(1, 0) >>
WorkedAnchorTable == << Anchor(1, 0), Anchor(2, 20), Anchor(4, 50) >>

LocateAnchorLists ==
    SeqsUpTo(AnchorValues, MaxAnchors) \cup {SingleAnchorTable, WorkedAnchorTable}

\* the query times; 10, 20, 35 and 60 are 5 s, 10 s, 17.5 s and 30 s
QueryTimes == (0..MaxTime) \cup {10, 20, 35, 60}

NoLocation == [measure |-> 0, progress |-> RatZero]

InitLocate ==
    /\ variant = "tri"
    /\ anchors \in LocateAnchorLists
    /\ cbAnchors = anchors
    /\ mode = "PLAYBACK"
    /\ revealMode = "OFF"
    /\ prevRevealMode = "OFF"
    /\ audioTime = 0
    /\ isLoaded = FALSE
    /\ lastMeasureIndex = -1
    /\ noteMap = <<>>
    /\ glyphMap = <<>>
    /\ opacity = <<>>
    /\ color = <<>>
    /\ located = NoLocation
    /\ lastOp = Op("idle", "done", 0)
    /\ ScrollAtRest(0)
    /\ mounted = FALSE
    /\ osmdRef = 0
    /\ loads = << >>
    /\ rafPending = FALSE
    /\ rafOrphans = 0
    /\ NoTimers
    /\ sheet = << >>
    /\ mapRuns = 0
    /\ OutsideIdle

\* one call findCurrentMeasure(t) on the current anchor list
Locate(t) ==
    /\ located' = findCurrentMeasure(cbAnchors, t)
    /\ audioTime' = t
    /\ lastOp' = Op("locate", "done", 0)
    /\ UNCHANGED <<variant, anchors, cbAnchors, mode, revealMode, prevRevealMode,
                   isLoaded, lastMeasureIndex, noteMap, glyphMap, opacity, color,
                   scrollVars, lifeVars, resizeVars, mapperVars, outsideViewer>>

NextLocate == \E t \in QueryTimes : Locate(t)

SpecLocate == InitLocate /\ [][NextLocate]_vars

----------------------------------------------------------------------------
(* Claims about the Position Interpolator, under SpecLocate *)

Indices(s) == 1..Len(s)
AnchorTimes(s) == { s[i].time : i \in Indices(s) }
DistinctTimes(s) == \A i, j \in Indices(s) : i # j => s[i].time # s[j].time
SortedByTime(s) == \A i, j \in Indices(s) : i < j => s[i].time <= s[j].time
Justlocated == lastOp.op = "locate"

\* the measures do not decrease along the list taken in time-ascending order
\* (anchors of equal time taken in list order)
MeasuresAscendInTime(s) ==
    \A i, j \in Indices(s) :
        (s[i].time < s[j].time \/ (s[i].time = s[j].time /\ i < j))
            => s[i].measure <= s[j].measure

\* C1 as stated: for every anchor list and query times t1 <= t2, the measure
\* located at t1 is at most the measure located at t2
C1_MonotoneAnyAnchors ==
    Justlocated =>
        \A t1 \in QueryTimes :
            t1 <= audioTime =>
                findCurrentMeasure(anchors, t1).measure <= located.measure

\* C1 amended: when the measures of the anchor list do not decrease in
\* time-ascending order, the located measure does not decrease with time
C1_MonotoneMeasure ==
    (Justlocated /\ MeasuresAscendInTime(anchors)) =>
        \A t1 \in QueryTimes :
            t1 <= audioTime =>
                findCurrentMeasure(anchors, t1).measure <= located.measure

C1_Witness ==
    /\ Justlocated
    /\ MeasuresAscendInTime(anchors)
    /\ ~SortedByTime(anchors)
    /\ located.measure = 2
    /\ \E t1 \in QueryTimes :
          t1 < audioTime /\ findCurrentMeasure(anchors, t1).measure = 1

\* the anchor of greatest time <= t in a list of pairwise distinct times
ActiveIndex(s, t) ==
    CHOOSE i \in Indices(s) :
        /\ s[i].time <= t
        /\ \A j \in Indices(s) : s[j].time <= t => s[j].time <= s[i].time
LaterTimes(s, t) == { x \in AnchorTimes(s) : x > t }
MinOf(S) == CHOOSE x \in S : \A y \in S : x <= y

\* C2: on a non-empty list of pairwise distinct times, at or after the
\* earliest anchor, the located measure is that of the anchor of greatest
\* time <= t, progress is (t - segStart) / (segEnd - segStart) with segEnd the
\* next anchor time, and 0 at the last anchor; the worked tables give the
\* documented values
C2_ActiveAnchorAndProgress ==
    /\ (/\ Justlocated
        /\ anchors # <<>>
        /\ DistinctTimes(anchors)
        /\ \E x \in AnchorTimes(anchors) : x <= audioTime)
       => LET a == anchors[ActiveIndex(anchors, audioTime)]
              later == LaterTimes(anchors, audioTime)
          IN  /\ located.measure = a.measure
              /\ later = {} => located.progress = RatZero
              /\ later # {} =>
                    located.progress =
                        Rat(audioTime - a.time, MinOf(later) - a.time)
    /\ (Justlocated /\ anchors = SingleAnchorTable)
       => located = [measure |-> 1, progress |-> RatZero]
    /\ (Justlocated /\ anchors = WorkedAnchorTable)
       => /\ audioTime = 10 => located = [measure |-> 1, progress |-> Rat(1, 2)]
          /\ audioTime = 20 => located = [measure |-> 2, progress |-> RatZero]
          /\ audioTime = 35 => located = [measure |-> 2, progress |-> Rat(1, 2)]
          /\ audioTime = 60 => located = [measure |-> 4, progress |-> RatZero]

C2_Witness ==
    /\ Justlocated
    /\ anchors = WorkedAnchorTable
    /\ audioTime = 35
    /\ located = [measure |-> 2, progress |-> Rat(1, 2)]

\* C3: with an empty anchor list every query returns measure 1, progress 0
C3_EmptyAnchors ==
    (Justlocated /\ anchors = <<>>)
        => located = [measure |-> 1, progress |-> RatZero]

C3_Witness ==
    /\ Justlocated
    /\ anchors = <<>>
    /\ audioTime = MaxTime
    /\ located = [measure |-> 1, progress |-> RatZero]

\* the two list positions i < j that share the greatest anchor time <= t,
\* when exactly two anchors have that time
TiedPairs(s, t) ==
    { p \in Indices(s) \X Indices(s) :
        /\ p[1] < p[2]
        /\ s[p[1]].time = s[p[2]].time
        /\ s[p[1]].time <= t
        /\ \A k \in Indices(s) :
              /\ s[k].time <= t => s[k].time <= s[p[1]].time
              /\ s[k].time = s[p[1]].time => k \in {p[1], p[2]} }

\* C4 as stated: with two anchors sharing the active time, the larger of
\* their measures is located, whatever their order in the list
C4_TieLargerMeasure ==
    Justlocated =>
        \A p \in TiedPairs(anchors, audioTime) :
            located.measure =
                IF anchors[p[1]].measure > anchors[p[2]].measure
                THEN anchors[p[1]].measure ELSE anchors[p[2]].measure

\* C4 amended: with two anchors sharing the active time, the measure of the
\* one that comes later in the anchor list is located
C4_TieLaterInList ==
    Justlocated =>
        \A p \in TiedPairs(anchors, audioTime) :
            located.measure = anchors[p[2]].measure

C4_Witness ==
    /\ Justlocated
    /\ \E p \in TiedPairs(anchors, audioTime) :
          /\ anchors[p[1]].measure > anchors[p[2]].measure
          /\ located.measure = anchors[p[2]].measure
    /\ LaterTimes(anchors, audioTime) # {}

\* C5: for every anchor list, sorted or not, with or without equal times,
\* and every query time, progress is in [0, 1]; it is 0 when no anchor lies
\* after the query time (the segment has no end), hence also when all
\* anchors share one time
C5_ProgressRange ==
    Justlocated =>
        /\ RatLe(RatZero, located.progress)
        /\ RatLe(located.progress, RatOne)
        /\ LaterTimes(anchors, audioTime) = {} => located.progress = RatZero
        /\ (\A x \in AnchorTimes(anchors) : x > audioTime)
              => located.progress = RatZero

C5_Witness ==
    /\ Justlocated
    /\ ~SortedByTime(anchors)
    /\ ~DistinctTimes(anchors)
    /\ located.progress = Rat(1, 2)

C5_WitnessUnbounded ==
    /\ Justlocated
    /\ anchors # <<>>
    /\ LaterTimes(anchors, audioTime) = {}
    /\ located.progress = RatZero

----------------------------------------------------------------------------
(* The rendered score: the engine's layout and the DOM it drew *)

\* (osmd.GraphicSheet as any).UnitInPixels || 10
UnitInPixels == 10
\* Number.MAX_VALUE, and Number.MIN_VALUE (the least positive double, under
\* every positive length of the model)
NumberMaxValue == 100000
NumberMinValue == 0

StaffEntry(x, els) == [relX |-> x, noteEls |-> els]
\* shape: the staff measure has a PositionAndShape
StaffMeasure(x, y, w, h, entries) ==
    [shape |-> TRUE, absX |-> x, absY |-> y, BorderLeft |-> 0, BorderRight |-> w,
     BorderTop |-> 0, BorderBottom |-> h, staffEntries |-> entries]

\* osmd.GraphicSheet.MeasureList in layout units: three measures on one
\* horizontal staffline, each 100 units wide; measure 1 has two staves
MeasureList ==
    << << StaffMeasure(0, 0, 100, 4, << StaffEntry(30, <<1>>) >>),
          StaffMeasure(0, 8, 100, 4, << StaffEntry(50, << >>) >>) >>,
       << StaffMeasure(100, 0, 100, 4, << StaffEntry(48, <<2>>), StaffEntry(54, <<3>>) >>) >>,
       << StaffMeasure(200, 0, 100, 4, << StaffEntry(49, <<5>>), StaffEntry(70, << >>) >>) >> >>

\* the glyphs of the rendered SVG in document order, with their class and
\* their horizontal extent in pixels from the container's left edge
Glyph(c, l, w) == [cls |-> c, left |-> l, width |-> w]
Dom ==
    << Glyph("vf-stavenote", 300, 12),
       Glyph("vf-stavenote", 1480, 12), Glyph("vf-stavenote", 1540, 12),
       Glyph("vf-beam", 1485, 60),
       Glyph("vf-stavenote", 2490, 12), Glyph("vf-rest", 2700, 12),
       Glyph("vf-accidental", 1996, 10) >>
Elements == 1..Len(Dom)
NoteElements == { e \in Elements : Dom[e].cls = "vf-stavenote" }

Min(a, b) == IF a < b THEN a ELSE b
Max(a, b) == IF a > b THEN a ELSE b

\* the staffMeasure loop shared by updateCursorPosition and handleScoreClick:
\* extents over the staves of one measure, in layout units
RECURSIVE FoldStaves(_, _, _)
FoldStaves(staves, i, acc) ==
    IF i > Len(staves) THEN acc
    ELSE LET pos == staves[i]
             top == pos.absY + pos.BorderTop
             bottom == pos.absY + pos.BorderBottom
             left == pos.absX + pos.BorderLeft
             right == pos.absX + pos.BorderRight
             noteAbsX == IF Len(pos.staffEntries) > 0
                         THEN pos.absX + pos.staffEntries[1].relX
                         ELSE NumberMaxValue
         IN  FoldStaves(staves, i + 1,
                 [minY |-> Min(acc.minY, top), maxY |-> Max(acc.maxY, bottom),
                  minX |-> Min(acc.minX, left), maxX |-> Max(acc.maxX, right),
                  minNoteX |-> Min(acc.minNoteX, noteAbsX)])

MeasureExtents(staves) ==
    FoldStaves(staves, 1,
        [minY |-> NumberMaxValue, maxY |-> NumberMinValue,
         minX |-> NumberMaxValue, maxX |-> NumberMinValue,
         minNoteX |-> NumberMaxValue])

\* the extents of every measure of the score
Extents == [m \in 1..Len(MeasureList) |-> MeasureExtents(MeasureList[m])]

----------------------------------------------------------------------------
(* Geometry Mapper *)

NoteData(e, m, ts) == [id |-> e, measureIndex |-> m, timestamp |-> ts, element |-> e]

\* what the division of two numbers gives: NaN for 0 / 0, Infinity for
\* n / 0 with n > 0, the quotient otherwise
NaN == <<0, 0>>
PlusInfinity == <<1, 0>>
Divide(n, d) ==
    IF d = 0 THEN (IF n = 0 THEN NaN ELSE PlusInfinity) ELSE Rat(n, d)

\* the notes of one staffMeasure of measure m: one NoteData per note glyph,
\* timestamp = relX * unitInPixels / measureWidth
RECURSIVE EntryNotes(_, _, _, _)
EntryNotes(entries, i, m, measureWidth) ==
    IF i > Len(entries) THEN <<>>
    ELSE LET relX == entries[i].relX * UnitInPixels
             els == entries[i].noteEls
         IN  [k \in 1..Len(els) |-> NoteData(els[k], m, Divide(relX, measureWidth))]
             \o EntryNotes(entries, i + 1, m, measureWidth)

RECURSIVE StaffNotes(_, _, _)
StaffNotes(staves, i, m) ==
    IF i > Len(staves) THEN <<>>
    ELSE LET pos == staves[i]
             measureWidth == (pos.BorderRight - pos.BorderLeft) * UnitInPixels
         IN  EntryNotes(pos.staffEntries, 1, m, measureWidth)
             \o StaffNotes(staves, i + 1, m)

\* newNoteMap over the measure list ml: only the measures with at least one
\* mapped note get a key
NoteMapOf(ml) ==
    LET all == [m \in 1..Len(ml) |-> StaffNotes(ml[m], 1, m)]
    IN  [m \in { k \in 1..Len(ml) : all[k] # <<>> } |-> all[m]]

BuildNoteMap == NoteMapOf(MeasureList)

GlyphRight(e) == Dom[e].left + Dom[e].width

\* boolean-reveal viewer: the first m in 1..newNoteMap.size whose note extent
\* [first note left - 10, last note right + 10] holds the beam's left edge
RECURSIVE BeamMeasure(_, _, _)
BeamMeasure(nm, b, m) ==
    IF m > Cardinality(DOMAIN nm) THEN 0
    ELSE IF /\ m \in DOMAIN nm
            /\ Dom[b].left >= Dom[nm[m][1].element].left - 10
            /\ Dom[b].left <= GlyphRight(nm[m][Len(nm[m])].element) + 10
         THEN m
         ELSE BeamMeasure(nm, b, m + 1)

\* the glyphs among sel (in document order) whose assigned measure is m
RECURSIVE GlyphsOf(_, _, _, _)
GlyphsOf(sel, assigned, i, m) ==
    IF i > Len(sel) THEN <<>>
    ELSE (IF assigned[i] = m THEN <<sel[i]>> ELSE <<>>)
         \o GlyphsOf(sel, assigned, i + 1, m)

RECURSIVE SelectByClass(_, _)
SelectByClass(i, classes) ==
    IF i > Len(Dom) THEN <<>>
    ELSE (IF Dom[i].cls \in classes THEN <<i>> ELSE <<>>)
         \o SelectByClass(i + 1, classes)

BuildBeamsMap(nm) ==
    LET beams == SelectByClass(1, {"vf-beam"})
        assigned == [i \in 1..Len(beams) |-> BeamMeasure(nm, beams[i], 1)]
        keys == { assigned[i] : i \in 1..Len(beams) } \ {0}
    IN  [m \in keys |-> GlyphsOf(beams, assigned, 1, m)]

\* three-state viewer: measureBounds in pixels, and the first measure whose
\* [left - 10, right + 10] holds the glyph's horizontal centre
MeasureBounds ==
    [m \in 1..Len(MeasureList) |->
        LET ext == Extents[m]
        IN  [index |-> m, left |-> ext.minX * UnitInPixels,
             right |-> ext.maxX * UnitInPixels]]

\* measureBounds over the measure list ml
MeasureBoundsOf(ml) ==
    [m \in 1..Len(ml) |->
        LET ext == MeasureExtents(ml[m])
        IN  [index |-> m, left |-> ext.minX * UnitInPixels,
             right |-> ext.maxX * UnitInPixels]]

\* mutant: the centre is tested against the measure's box itself
RECURSIVE ContentMeasure_NoTolerance(_, _, _)
ContentMeasure_NoTolerance(bounds, e, k) ==
    LET elCenterX == Dom[e].left + Dom[e].width \div 2
    IN  IF k > Len(bounds) THEN 0
        ELSE IF elCenterX >= bounds[k].left /\ elCenterX <= bounds[k].right
             THEN bounds[k].index
             ELSE ContentMeasure_NoTolerance(bounds, e, k + 1)

\* measureBounds.find: the first entry from k on that holds the centre of e
RECURSIVE ContentMeasure(_, _, _)
ContentMeasure(bounds, e, k) ==
    LET elCenterX == Dom[e].left + Dom[e].width \div 2
    IN  IF k > Len(bounds) THEN 0
        ELSE IF /\ elCenterX >= bounds[k].left - 10
                /\ elCenterX <= bounds[k].right + 10
             THEN bounds[k].index
             ELSE ContentMeasure(bounds, e, k + 1)

ContentMapOf(bounds) ==
    LET sel == SelectByClass(1, {"vf-stavenote", "vf-beam", "vf-rest",
                                 "vf-accidental", "vf-modifier"})
        assigned == [i \in 1..Len(sel) |-> ContentMeasure(bounds, sel[i], 1)]
        keys == { assigned[i] : i \in 1..Len(sel) } \ {0}
    IN  [m \in keys |-> GlyphsOf(sel, assigned, 1, m)]

BuildContentMap == ContentMapOf(MeasureBounds)

\* a staff measure of the list has no PositionAndShape: reading its borders
\* throws a TypeError
ReadsMissingShape(ml) ==
    \E m \in 1..Len(ml) : \E k \in 1..Len(ml[m]) : ~ml[m][k].shape

\* mutant: the lookup structures of the previous run are filled again
NewMap_Reused(prev) == prev
\* new Map(): every run fills maps of its own
NewMap(prev) == << >>

\* the entries of built appended, key by key, to those of base
FillMap(base, built) ==
    [m \in DOMAIN base \cup DOMAIN built |->
        (IF m \in DOMAIN base THEN base[m] ELSE << >>)
        \o (IF m \in DOMAIN built THEN built[m] ELSE << >>)]

\* calculateNoteMap() over the measure list ml, with the maps of the previous
\* run in place: the maps after it, and whether it threw (the maps are
\* assigned only after the loops)
calculateNoteMap(ml, prevNotes, prevGlyphs) ==
    IF ReadsMissingShape(ml)
    THEN [threw |-> TRUE, noteMap |-> prevNotes, glyphMap |-> prevGlyphs]
    ELSE LET nm == FillMap(NewMap(prevNotes), NoteMapOf(ml))
         IN  [threw |-> FALSE,
              noteMap |-> nm,
              glyphMap |-> FillMap(NewMap(prevGlyphs),
                              IF variant = "bool" THEN BuildBeamsMap(nm)
                              ELSE ContentMapOf(MeasureBoundsOf(ml)))]

----------------------------------------------------------------------------
(* Cursor/Visibility Renderer *)

SeqSet(q) == { q[i] : i \in 1..Len(q) }
SetAll(op, els, v) == [e \in DOMAIN op |-> IF e \in els THEN v ELSE op[e]]
NoteEls(notes) == { notes[i].element : i \in 1..Len(notes) }

\* revealMode as a callback created with reveal mode r tests it: `revealMode`
\* (boolean viewer, "NOTE" standing for true), `revealMode === 'NOTE'`
\* (three-state viewer)
RevealOn(r) == r = "NOTE"

\* noteMap.current.forEach of the boolean viewer, keys in insertion order
RECURSIVE SweepNotes(_, _, _)
SweepNotes(op, m, currentMeasure) ==
    IF m > Len(MeasureList) THEN op
    ELSE SweepNotes(
             IF m \notin DOMAIN noteMap THEN op
             ELSE IF m < currentMeasure THEN SetAll(op, NoteEls(noteMap[m]), 1)
             ELSE IF m > currentMeasure THEN SetAll(op, NoteEls(noteMap[m]), 0)
             ELSE op,
             m + 1, currentMeasure)

\* beamsMap.current.forEach of the boolean viewer
RECURSIVE SweepBeams(_, _, _)
SweepBeams(op, m, currentMeasure) ==
    IF m > Len(MeasureList) THEN op
    ELSE SweepBeams(
             IF m \notin DOMAIN glyphMap THEN op
             ELSE IF m > currentMeasure THEN SetAll(op, SeqSet(glyphMap[m]), 0)
             ELSE SetAll(op, SeqSet(glyphMap[m]), 1),
             m + 1, currentMeasure)

\* measureContentMap.current.forEach of the three-state viewer
RECURSIVE SweepContent(_, _, _)
SweepContent(op, m, currentMeasure) ==
    IF m > Len(MeasureList) THEN op
    ELSE SweepContent(
             IF m \notin DOMAIN glyphMap THEN op
             ELSE IF m < currentMeasure THEN SetAll(op, SeqSet(glyphMap[m]), 1)
             ELSE IF m > currentMeasure THEN SetAll(op, SeqSet(glyphMap[m]), 0)
             ELSE SetAll(op, { e \in SeqSet(glyphMap[m]) :
                                 Dom[e].cls \in {"vf-beam", "vf-rest"} }, 1),
             m + 1, currentMeasure)

\* mutant: the sweep leaves the glyphs of the current measure as they are
updateMeasureVisibility_SkipCurrent(r, op, currentMeasure) ==
    IF ~RevealOn(r) THEN op
    ELSE LET hide == { e \in DOMAIN op :
                         \E m \in DOMAIN glyphMap :
                             m > currentMeasure /\ e \in SeqSet(glyphMap[m]) }
             show == { e \in DOMAIN op :
                         \E m \in DOMAIN glyphMap :
                             m < currentMeasure /\ e \in SeqSet(glyphMap[m]) }
             notes == IF variant = "bool" THEN SweepNotes(op, 1, currentMeasure)
                      ELSE op
         IN  SetAll(SetAll(notes, show, 1), hide, 0)

\* the opacities after updateMeasureVisibility(currentMeasure), the callback
\* having been created with reveal mode r
updateMeasureVisibility(r, op, currentMeasure) ==
    IF ~RevealOn(r) THEN op
    ELSE IF variant = "bool"
         THEN SweepBeams(SweepNotes(op, 1, currentMeasure), 1, currentMeasure)
         ELSE SweepContent(op, 1, currentMeasure)

AllMapped(map) == UNION { SeqSet(map[m]) : m \in DOMAIN map }
AllNotes == UNION { NoteEls(noteMap[m]) : m \in DOMAIN noteMap }

\* the effect on [revealMode, updateMeasureVisibility, findCurrentMeasure,
\* audioRef], run with reveal mode r and anchor list a: the opacities after it
RevealEffectOpacity(r, a) ==
    LET measure == findCurrentMeasure(a, audioTime).measure
    IN  IF variant = "bool"
        THEN IF r # "NOTE"
             THEN SetAll(opacity, AllNotes \cup AllMapped(glyphMap), 1)
             ELSE updateMeasureVisibility(r, opacity, measure)
        ELSE LET left == IF prevRevealMode = "NOTE" /\ r # "NOTE"
                         THEN SetAll(opacity, AllMapped(glyphMap), 1)
                         ELSE opacity
                 swept == IF r = "NOTE"
                          THEN updateMeasureVisibility(r, left, measure)
                          ELSE left
             IN  IF r = "CURTAIN"
                 THEN SetAll(swept, AllMapped(glyphMap), 1)
                 ELSE swept

\* the measure the effect passes to the sweep, 0 when it does not sweep
RevealEffectSwept(r, a) ==
    IF r = "NOTE" THEN findCurrentMeasure(a, audioTime).measure ELSE 0

\* const paddingPixels = 12
PaddingPixels == 12
\* const lookahead = 0.04, and the 0.01 of noteEndThreshold
Lookahead == Rat(4, 100)
NoteEndMargin == Rat(1, 100)
HighlightColor == "#10B981"
DefaultColor == "#000000"

\* mutant: the padded start is not kept right of the measure's left edge
VisualStartPx_Unclamped(measure, ext) ==
    IF measure = 1 /\ ext.minNoteX < NumberMaxValue
    THEN ext.minNoteX * UnitInPixels - PaddingPixels
    ELSE ext.minX * UnitInPixels

\* visualStartX in pixels: the measure's left edge, except in measure 1 the
\* first note's x minus the padding, never left of the measure's left edge
VisualStartPx(measure, ext) ==
    IF measure = 1 /\ ext.minNoteX < NumberMaxValue
    THEN Max(ext.minX * UnitInPixels, ext.minNoteX * UnitInPixels - PaddingPixels)
    ELSE ext.minX * UnitInPixels

\* highlightProgress = offsetRatio + effectiveProgress * scaleRatio
HighlightProgress(ext, visualStart, progress) ==
    LET fullMeasureWidth == (ext.maxX - ext.minX) * UnitInPixels
        activeWidth == ext.maxX * UnitInPixels - visualStart
        startOffset == visualStart - ext.minX * UnitInPixels
        offsetRatio == IF fullMeasureWidth > 0
                       THEN Rat(startOffset, fullMeasureWidth) ELSE RatZero
        scaleRatio == IF fullMeasureWidth > 0
                      THEN Rat(activeWidth, fullMeasureWidth) ELSE RatOne
    IN  RatAdd(offsetRatio, RatMul(progress, scaleRatio))

\* mutant: the window is open at both ends
NoteIsActive_Strict(hp, timestamp) ==
    /\ RatLt(hp, RatAdd(timestamp, NoteEndMargin))
    /\ RatLt(RatSub(timestamp, Lookahead), hp)

\* highlightProgress <= noteEndThreshold &&
\* highlightProgress >= noteData.timestamp - lookahead
NoteIsActive(hp, timestamp) ==
    /\ RatLe(hp, RatAdd(timestamp, NoteEndMargin))
    /\ RatLe(RatSub(timestamp, Lookahead), hp)

\* mutant: a note exactly the lookahead ahead is hidden too
NoteIsAhead_Inclusive(hp, timestamp) == RatLe(hp, RatSub(timestamp, Lookahead))

\* highlightProgress < noteData.timestamp - lookahead
NoteIsAhead(hp, timestamp) == RatLt(hp, RatSub(timestamp, Lookahead))

\* the PLAYBACK forEach over notesInMeasure from note i on; dom holds the
\* opacities and colours
RECURSIVE PlaybackNotes(_, _, _, _, _)
PlaybackNotes(dom, notes, i, hp, r) ==
    IF i > Len(notes) THEN dom
    ELSE LET el == notes[i].element
             ts == notes[i].timestamp
             op == IF RevealOn(r)
                   THEN [dom.opacity EXCEPT ![el] = IF NoteIsAhead(hp, ts) THEN 0 ELSE 1]
                   ELSE IF variant = "bool"
                        THEN [dom.opacity EXCEPT ![el] = 1]
                        ELSE dom.opacity
             col == [dom.color EXCEPT ![el] = IF NoteIsActive(hp, ts)
                                              THEN HighlightColor
                                              ELSE DefaultColor]
         IN  PlaybackNotes([opacity |-> op, color |-> col], notes, i + 1, hp, r)

\* the RECORD forEach of the three-state viewer
RECURSIVE RecordNotes(_, _, _)
RecordNotes(dom, notes, i) ==
    IF i > Len(notes) THEN dom
    ELSE RecordNotes([opacity |-> [dom.opacity EXCEPT ![notes[i].element] = 1],
                      color |-> [dom.color EXCEPT ![notes[i].element] = DefaultColor]],
                     notes, i + 1)

\* "Record Mode Reset".  In the boolean viewer the statement
\*     applyColor(noteData.element, '#000000')
\*         (noteData.element as HTMLElement).style.opacity = '1'
\* has no semicolon between its two lines: it calls the value applyColor
\* returned (undefined).  applyColor runs for the first note, then a
\* TypeError leaves the loop and is caught by the frame's catch
RecordReset(dom, notes) ==
    IF variant = "tri"
    THEN [dom |-> RecordNotes(dom, notes, 1), result |-> "done"]
    ELSE IF notes = <<>> THEN [dom |-> dom, result |-> "done"]
    ELSE [dom |-> [opacity |-> dom.opacity,
                   color |-> [dom.color EXCEPT ![notes[1].element] = DefaultColor]],
          result |-> "threw"]

\* cursorX = systemX + systemWidth * effectiveProgress, in pixels
CursorX(ext, visualStart, progress) ==
    LET systemWidth == ext.maxX * UnitInPixels - visualStart
    IN  RatAdd(Rat(visualStart, 1), RatMul(Rat(systemWidth, 1), progress))

RatAbs(p) == <<Abs(p[1]), p[2]>>

\* the width of what the scroll container holds: the rendered staffline
ScrollWidth == Extents[Len(MeasureList)].maxX * UnitInPixels
\* scrollLeft and scrollTo keep the offset within what can be scrolled
ClampScroll(x, w) ==
    RatMax(RatZero, RatMin(x, Rat(Max(0, ScrollWidth - w), 1)))

\* const targetScrollLeft = cursorX - (containerWidth * 0.2)
TargetScrollLeft(cursorX, w) == RatSub(cursorX, Rat(w * 2, 10))
UserScrollDistance == 250
SmoothScrollDistance == 50

\* mutant: the snap is made only when the offset is far from its target
IsUserControlling_Near(diff) == RatLe(diff, Rat(UserScrollDistance, 1))
\* const isUserControlling = diff > 250
IsUserControlling(diff) == RatLt(Rat(UserScrollDistance, 1), diff)

\* "Scroll Logic": the container's offset and smooth scroll after a frame
\* with the cursor at cursorX; changed: the frame entered another measure
ScrollLogic(cursorX, changed) ==
    LET target == TargetScrollLeft(cursorX, containerWidth)
        diff == RatAbs(RatSub(scrollLeft, target))
        snap == ~IsUserControlling(diff)
        left1 == IF snap THEN ClampScroll(target, containerWidth) ELSE scrollLeft
        \* assigning scrollLeft ends a smooth scroll under way
        smooth1 == IF snap THEN NoScroll ELSE smoothTarget
        animate == changed /\ RatLt(Rat(SmoothScrollDistance, 1), diff)
        goal == ClampScroll(target, containerWidth)
    IN  [left |-> left1,
         smooth |-> IF animate THEN (IF goal = left1 THEN NoScroll ELSE goal)
                    ELSE smooth1]

\* mutant: every frame counts as a measure change
MeasureChanged_EveryFrame(currentMeasureIndex, last) == TRUE

\* currentMeasureIndex !== lastMeasureIndexRef.current
MeasureChanged(currentMeasureIndex, last) == currentMeasureIndex # last

\* updateCursorPosition(time) run by callbacks created with anchor list a,
\* mode md and reveal mode r: the DOM and refs after it, how it ended
\* ("skipped": an early return), and the measure swept (0: none)
updateCursorPosition(a, md, r, time) ==
    LET loc == findCurrentMeasure(a, time)
        measure == loc.measure
        currentMeasureIndex == measure - 1
        same == [opacity |-> opacity, color |-> color, last |-> lastMeasureIndex,
                 result |-> "skipped", swept |-> 0, located |-> loc,
                 left |-> scrollLeft, smooth |-> smoothTarget,
                 cursor |-> cursorLeft]
    IN  IF Len(MeasureList) = 0 \/ currentMeasureIndex >= Len(MeasureList)
        THEN same
        ELSE IF Len(MeasureList[measure]) = 0 THEN same
        ELSE
        LET ext == Extents[measure]
            visualStart == VisualStartPx(measure, ext)
            cursorX == CursorX(ext, visualStart, loc.progress)
            scroll == ScrollLogic(cursorX,
                                  MeasureChanged(currentMeasureIndex,
                                                 lastMeasureIndex))
            sweep == RevealOn(r) /\ MeasureChanged(currentMeasureIndex,
                                                   lastMeasureIndex)
            op1 == IF sweep THEN updateMeasureVisibility(r, opacity, measure)
                   ELSE opacity
            dom1 == [opacity |-> op1, color |-> color]
            hasNotes == measure \in DOMAIN noteMap
            hp == HighlightProgress(ext, visualStart, loc.progress)
            dom2 == IF hasNotes /\ md = "PLAYBACK"
                    THEN PlaybackNotes(dom1, noteMap[measure], 1, hp, r)
                    ELSE dom1
            rec == IF hasNotes /\ md = "RECORD"
                   THEN RecordReset(dom2, noteMap[measure])
                   ELSE [dom |-> dom2, result |-> "done"]
        IN  [opacity |-> rec.dom.opacity, color |-> rec.dom.color,
             last |-> currentMeasureIndex, result |-> rec.result,
             swept |-> IF sweep THEN measure ELSE 0, located |-> loc,
             left |-> scroll.left, smooth |-> scroll.smooth,
             cursor |-> cursorX]

\* osmdRef.current is an engine whose score has loaded (it has a GraphicSheet)
SheetReady == osmdRef # 0 /\ loads[osmdRef] = "resolved"

\* mutant: an exception of the positioning code leaves animate() before it
\* asks for the next frame
RequestNextFrame_Uncaught(result) == result # "threw"
\* animate: requestAnimationFrame(animate) follows updateCursorPosition, whose
\* try/catch lets no exception out
RequestNextFrame(result) == TRUE

\* the frame requests not yet run: the one whose id animationFrameRef holds,
\* and how many whose id it no longer holds
Loop == [current |-> rafPending, orphans |-> rafOrphans]

\* mutant: the cleanup of the loop effect cancels nothing
CancelFrame_Forgotten(loop) == loop

\* cancelAnimationFrame(animationFrameRef.current)
CancelFrame(loop) == [loop EXCEPT !.current = FALSE]

\* animationFrameRef.current = requestAnimationFrame(animate): the ref holds
\* the new request; one it held before and that has not run stays pending
RequestFrame(loop) ==
    [current |-> TRUE,
     orphans |-> loop.orphans + IF loop.current THEN 1 ELSE 0]

\* a pending request fires: which of them the browser runs
PendingFrames(loop) ==
    (IF loop.current THEN {"current"} ELSE {})
    \cup (IF loop.orphans > 0 THEN {"orphan"} ELSE {})
Fired(loop, which) ==
    IF which = "current" THEN [loop EXCEPT !.current = FALSE]
    ELSE [loop EXCEPT !.orphans = @ - 1]

\* the loop effect runs again ([isLoaded, updateCursorPosition, audioRef]
\* changed): the cleanup of its last run, if that run started the loop, then
\* `if (!isLoaded) return` and the first request
LoopEffect(loop, wasLoaded, loaded) ==
    LET cleaned == IF wasLoaded THEN CancelFrame(loop) ELSE loop
    IN  IF loaded THEN RequestFrame(cleaned) ELSE cleaned

\* one animation frame: the pending request fires and animate() calls
\* updateCursorPosition(currentTime), then asks for the next frame
FrameStep ==
    \E which \in PendingFrames(Loop) :
    /\ IF isLoaded /\ SheetReady
       THEN LET f == updateCursorPosition(cbAnchors, mode, revealMode, audioTime)
            IN  /\ opacity' = f.opacity
                /\ color' = f.color
                /\ lastMeasureIndex' = f.last
                /\ located' = f.located
                /\ scrollLeft' = f.left
                /\ smoothTarget' = f.smooth
                /\ cursorLeft' = f.cursor
                /\ lastOp' = Op("frame", f.result, f.swept)
                /\ LET after == IF RequestNextFrame(f.result)
                                THEN RequestFrame(Fired(Loop, which))
                                ELSE Fired(Loop, which)
                   IN  rafPending' = after.current /\ rafOrphans' = after.orphans
                /\ anchors' = SortedCopy(anchors, "time").source
                /\ cbAnchors' = SortedCopy(cbAnchors, "time").source
       ELSE /\ lastOp' = Op("frame", "skipped", 0)
            /\ located' = NoLocation
            /\ LET after == IF RequestNextFrame("skipped")
                            THEN RequestFrame(Fired(Loop, which))
                            ELSE Fired(Loop, which)
               IN  rafPending' = after.current /\ rafOrphans' = after.orphans
            /\ UNCHANGED <<opacity, color, lastMeasureIndex, scrollLeft,
                           smoothTarget, cursorLeft, anchors, cbAnchors>>
    /\ UNCHANGED <<variant, mode, revealMode, prevRevealMode, audioTime,
                   isLoaded, noteMap, glyphMap, containerWidth, mounted,
                   osmdRef, loads, resizeVars, mapperVars, outsideViewer>>

----------------------------------------------------------------------------
(* Click-to-seek *)

Reverse(q) == [i \in 1..Len(q) |-> q[Len(q) + 1 - i]]

\* the hit test: the first measure whose pixel box holds the click, 0 if none
RECURSIVE HitMeasure(_, _, _)
HitMeasure(clickX, clickY, m) ==
    IF m > Len(MeasureList) THEN 0
    ELSE LET ext == Extents[m]
         IN  IF /\ clickX >= ext.minX * UnitInPixels
                /\ clickX <= ext.maxX * UnitInPixels
                /\ clickY >= ext.minY * UnitInPixels
                /\ clickY <= ext.maxY * UnitInPixels
             THEN m
             ELSE HitMeasure(clickX, clickY, m + 1)

\* Array.prototype.find: the index of the first anchor of q with
\* measure <= measureNumber, 0 if none
RECURSIVE FindAtOrBefore(_, _, _)
FindAtOrBefore(q, i, measureNumber) ==
    IF i > Len(q) THEN 0
    ELSE IF q[i].measure <= measureNumber THEN i
    ELSE FindAtOrBefore(q, i + 1, measureNumber)

\* mutant: the scan runs over the ascending list, so the anchor of the
\* least measure is found
SeekTarget_Ascending(a, measureNumber) ==
    LET q == SortedCopy(a, "measure").sorted
        i == FindAtOrBefore(q, 1, measureNumber)
    IN  IF i = 0 THEN << >> ELSE << q[i] >>

\* sortedAnchors.reverse().find(a => a.measure <= measureNumber): the target
\* anchor as a list of one, empty when find returns undefined
SeekTarget(a, measureNumber) ==
    LET q == Reverse(SortedCopy(a, "measure").sorted)
        i == FindAtOrBefore(q, 1, measureNumber)
    IN  IF i = 0 THEN << >> ELSE << q[i] >>

\* handleScoreClick for a click at (clickX, clickY) in container pixels
handleScoreClick(clickX, clickY) ==
    /\ mounted
    /\ LET hit == IF SheetReady THEN HitMeasure(clickX, clickY, 1) ELSE 0
           target == IF hit = 0 THEN << >> ELSE SeekTarget(cbAnchors, hit)
       IN  /\ audioTime' = IF target = << >> THEN audioTime ELSE target[1].time
           /\ lastOp' = [Op("click", IF target = << >> THEN "none" ELSE "seek", 0)
                            EXCEPT !.hit = hit]
           /\ anchors' = IF hit = 0 THEN anchors
                         ELSE SortedCopy(anchors, "measure").source
           /\ cbAnchors' = IF hit = 0 THEN cbAnchors
                           ELSE SortedCopy(cbAnchors, "measure").source
    /\ located' = NoLocation
    /\ UNCHANGED <<variant, mode, revealMode, prevRevealMode, isLoaded,
                   lastMeasureIndex, noteMap, glyphMap, opacity, color,
                   scrollVars, lifeVars, resizeVars, mapperVars, outsideViewer>>

----------------------------------------------------------------------------
(* The viewer: props, load, audio clock *)

\* the anchor tables the application hands to the viewer
ViewerAnchorTables ==
    { << Anchor(2, 2), Anchor(1, 0) >>,
      << Anchor(2, 0), Anchor(3, 2) >>,
      << Anchor(3, 0), Anchor(2, 2) >>,
      << Anchor(1, 1), Anchor(4, 2) >>,
      << Anchor(1, 0), Anchor(2, 1), Anchor(3, 2) >> }

RevealModes == IF variant = "bool" THEN {"OFF", "NOTE"}
               ELSE {"OFF", "NOTE", "CURTAIN"}

\* click points in container pixels: inside each measure or on the edge
\* two measures share, right of the score; on the upper staff, or at the
\* height of the lower staff that only measure 1 has
ClickXs == {50, 1000, 1900, 2500, 3500}
ClickYs == {20, 100}

\* the client width of a scroll container the whole staffline fits in
WideContainer == 4000

\* the state after the first render and its effects, for anchors and a
\* container width from the given sets: the engine created and its load
\* under way, the maps empty, every glyph as the engine will draw it
MountedViewer(tables, widths) ==
    /\ variant \in {"bool", "tri"}
    /\ anchors \in tables
    /\ cbAnchors = anchors
    /\ mode \in {"PLAYBACK", "RECORD"}
    /\ revealMode \in RevealModes
    /\ prevRevealMode = IF variant = "tri" THEN revealMode ELSE "OFF"
    /\ audioTime = 0
    /\ isLoaded = FALSE
    /\ lastMeasureIndex = -1
    /\ noteMap = << >>
    /\ glyphMap = << >>
    /\ opacity = [e \in Elements |-> 1]
    /\ color = [e \in Elements |-> DefaultColor]
    /\ located = NoLocation
    /\ lastOp = Op("idle", "done", 0)
    /\ scrollLeft = RatZero
    /\ smoothTarget = NoScroll
    /\ containerWidth \in widths
    /\ cursorLeft = NoCursor
    /\ mounted = TRUE
    /\ osmdRef = 1
    /\ loads = << "pending" >>
    /\ rafPending = FALSE
    /\ rafOrphans = 0
    /\ NoTimers
    /\ sheet = MeasureList
    /\ mapRuns = 0
    /\ OutsideIdle

Init == MountedViewer(ViewerAnchorTables, {WideContainer})

\* osmd.load(...).then of engine g: render, calculateNoteMap,
\* setIsLoaded(true); once isLoaded is true the animate effect asks for the
\* first frame
LoadResolved(g) ==
    /\ loads[g] = "pending"
    /\ loads' = [loads EXCEPT ![g] = "resolved"]
    /\ opacity' = [e \in Elements |-> 1]
    /\ color' = [e \in Elements |-> DefaultColor]
    /\ LET ran == osmdRef # 0 /\ loads'[osmdRef] = "resolved"
           built == IF ran THEN calculateNoteMap(sheet, noteMap, glyphMap)
                    ELSE [threw |-> FALSE, noteMap |-> noteMap,
                          glyphMap |-> glyphMap]
           \* an exception of calculateNoteMap goes to the promise's catch
           \* before setIsLoaded(true)
           loaded == mounted /\ ~built.threw
       IN  /\ noteMap' = built.noteMap
           /\ glyphMap' = built.glyphMap
           /\ mapRuns' = IF ran THEN mapRuns + 1 ELSE mapRuns
           /\ isLoaded' = (loaded \/ isLoaded)
           /\ LET after == IF isLoaded' # isLoaded
                            THEN LoopEffect(Loop, isLoaded, isLoaded')
                            ELSE Loop
               IN  rafPending' = after.current /\ rafOrphans' = after.orphans
           /\ lastOp' = Op("load", IF built.threw THEN "threw" ELSE "done", 0)
    /\ located' = NoLocation
    /\ renderTimers' = renderTimers \cup {g}
    /\ UNCHANGED <<variant, anchors, cbAnchors, mode, revealMode, prevRevealMode,
                   audioTime, lastMeasureIndex, scrollVars, mounted, osmdRef,
                   resizeTimers, burstRebuilds, sheet, outsideViewer>>

\* the setTimeout(..., 100) of engine g's load fires: osmd.render() draws the
\* score again, so the glyphs of the engine on show are new elements with no
\* inline style, and calculateNoteMap() maps them; the callback runs whether
\* or not the viewer is still mounted (no clearTimeout in the cleanup)
RenderTimerFires(g) ==
    /\ g \in renderTimers
    /\ renderTimers' = renderTimers \ {g}
    /\ opacity' = IF g = osmdRef THEN [e \in Elements |-> 1] ELSE opacity
    /\ color' = IF g = osmdRef THEN [e \in Elements |-> DefaultColor] ELSE color
    /\ LET built == IF SheetReady THEN calculateNoteMap(sheet, noteMap, glyphMap)
                    ELSE [threw |-> FALSE, noteMap |-> noteMap,
                          glyphMap |-> glyphMap]
       IN  /\ noteMap' = built.noteMap
           /\ glyphMap' = built.glyphMap
           /\ lastOp' = Op("render", IF ~SheetReady THEN "skipped"
                                     ELSE IF built.threw THEN "threw"
                                     ELSE "done", 0)
    /\ mapRuns' = IF SheetReady THEN mapRuns + 1 ELSE mapRuns
    /\ UNCHANGED <<variant, anchors, cbAnchors, mode, revealMode, prevRevealMode,
                   audioTime, isLoaded, lastMeasureIndex, located, scrollVars,
                   lifeVars, resizeTimers, burstRebuilds, sheet, outsideViewer>>

\* the application passes a new anchors prop: the callbacks are re-created
\* over it ([anchors] is a dependency) and the reveal effect runs again
SetAnchors(a) ==
    /\ mounted
    /\ a # anchors
    /\ anchors' = a
    /\ cbAnchors' = a
    /\ opacity' = RevealEffectOpacity(revealMode, a)
    /\ prevRevealMode' = IF variant = "tri" THEN revealMode ELSE prevRevealMode
    /\ located' = IF revealMode = "NOTE" THEN findCurrentMeasure(a, audioTime)
                  ELSE NoLocation
    /\ lastOp' = Op("anchors", "done", RevealEffectSwept(revealMode, a))
    /\ LET after == LoopEffect(Loop, isLoaded, isLoaded)
       IN  rafPending' = after.current /\ rafOrphans' = after.orphans
    /\ UNCHANGED <<variant, mode, revealMode, audioTime, isLoaded,
                   lastMeasureIndex, noteMap, glyphMap, color,
                   scrollVars, mounted, osmdRef, loads, resizeVars, mapperVars, outsideViewer>>

\* the application passes a new revealMode prop: the reveal effect runs
SetRevealMode(r) ==
    /\ mounted
    /\ r # revealMode
    /\ revealMode' = r
    /\ opacity' = RevealEffectOpacity(r, cbAnchors)
    /\ prevRevealMode' = IF variant = "tri" THEN r ELSE prevRevealMode
    /\ located' = IF r = "NOTE" THEN findCurrentMeasure(cbAnchors, audioTime)
                  ELSE NoLocation
    /\ lastOp' = Op("reveal", "done", RevealEffectSwept(r, cbAnchors))
    /\ anchors' = IF r = "NOTE" THEN SortedCopy(anchors, "time").source
                  ELSE anchors
    /\ cbAnchors' = IF r = "NOTE" THEN SortedCopy(cbAnchors, "time").source
                    ELSE cbAnchors
    /\ LET after == LoopEffect(Loop, isLoaded, isLoaded)
       IN  rafPending' = after.current /\ rafOrphans' = after.orphans
    /\ UNCHANGED <<variant, mode, audioTime, isLoaded, lastMeasureIndex,
                   noteMap, glyphMap, color,
                   scrollVars, mounted, osmdRef, loads, resizeVars, mapperVars, outsideViewer>>

\* the application passes a new mode prop (no effect of the viewer reads it)
SetMode(md) ==
    /\ mounted
    /\ md # mode
    /\ mode' = md
    /\ located' = NoLocation
    /\ lastOp' = Op("idle", "done", 0)
    /\ LET after == LoopEffect(Loop, isLoaded, isLoaded)
       IN  rafPending' = after.current /\ rafOrphans' = after.orphans
    /\ UNCHANGED <<variant, anchors, cbAnchors, revealMode, prevRevealMode,
                   audioTime, isLoaded, lastMeasureIndex, noteMap, glyphMap,
                   opacity, color,
                   scrollVars, mounted, osmdRef, loads, resizeVars, mapperVars, outsideViewer>>

\* the media element plays on by one tick
AudioAdvance ==
    /\ mounted
    /\ audioTime < MaxTime
    /\ audioTime' = audioTime + 1
    /\ located' = NoLocation
    /\ lastOp' = Op("idle", "done", 0)
    /\ UNCHANGED <<variant, anchors, cbAnchors, mode, revealMode, prevRevealMode,
                   isLoaded, lastMeasureIndex, noteMap, glyphMap, opacity, color,
                   scrollVars, lifeVars, resizeVars, mapperVars, outsideViewer>>

Next ==
    \/ \E g \in 1..Len(loads) : LoadResolved(g)
    \/ FrameStep
    \/ \E x \in ClickXs, y \in ClickYs : handleScoreClick(x, y)
    \/ \E a \in ViewerAnchorTables : SetAnchors(a)
    \/ \E r \in RevealModes : SetRevealMode(r)
    \/ \E md \in {"PLAYBACK", "RECORD"} : SetMode(md)
    \/ AudioAdvance

Spec == Init /\ [][Next]_vars

----------------------------------------------------------------------------
(* The Geometry Mapper on well-formed and malformed layouts *)

\* calculateNoteMap calls of one run of the mapper specification
MaxMapRuns == 2

\* (measure, staff) of every staff measure of the sheet
StaffPositions ==
    { p \in (1..Len(MeasureList)) \X (1..2) : p[2] <= Len(MeasureList[p[1]]) }

\* a staff measure as the engine laid it out, without its PositionAndShape,
\* with no width, or with no note that has a rendered element
Malformed(staff, kind) ==
    CASE kind = "ok" -> staff
      [] kind = "noShape" -> [staff EXCEPT !.shape = FALSE]
      [] kind = "zeroWidth" -> [staff EXCEPT !.BorderRight = staff.BorderLeft]
      [] kind = "noNotes" ->
            [staff EXCEPT !.staffEntries =
                [i \in 1..Len(staff.staffEntries) |->
                    StaffEntry(staff.staffEntries[i].relX, << >>)]]

MapperSheets ==
    { [m \in 1..Len(MeasureList) |->
          [k \in 1..Len(MeasureList[m]) |->
              Malformed(MeasureList[m][k], f[<<m, k>>])]] :
      f \in [StaffPositions -> {"ok", "noShape", "zeroWidth"}] }

\* the engine has loaded a sheet; calculateNoteMap has not run yet
InitMapper ==
    /\ variant \in {"bool", "tri"}
    /\ sheet \in MapperSheets
    /\ anchors = << Anchor(1, 0) >>
    /\ cbAnchors = anchors
    /\ mode = "PLAYBACK"
    /\ revealMode = "OFF"
    /\ prevRevealMode = "OFF"
    /\ audioTime = 0
    /\ isLoaded = FALSE
    /\ lastMeasureIndex = -1
    /\ noteMap = << >>
    /\ glyphMap = << >>
    /\ opacity = [e \in Elements |-> 1]
    /\ color = [e \in Elements |-> DefaultColor]
    /\ located = NoLocation
    /\ lastOp = Op("idle", "done", 0)
    /\ ScrollAtRest(WideContainer)
    /\ mounted = TRUE
    /\ osmdRef = 1
    /\ loads = << "resolved" >>
    /\ rafPending = FALSE
    /\ rafOrphans = 0
    /\ NoTimers
    /\ mapRuns = 0
    /\ OutsideIdle

\* one call of calculateNoteMap() on the sheet of the current engine
Remap ==
    /\ mapRuns < MaxMapRuns
    /\ SheetReady
    /\ LET built == calculateNoteMap(sheet, noteMap, glyphMap)
       IN  /\ noteMap' = built.noteMap
           /\ glyphMap' = built.glyphMap
           /\ lastOp' = Op("map", IF built.threw THEN "threw" ELSE "done", 0)
    /\ mapRuns' = mapRuns + 1
    /\ UNCHANGED <<variant, anchors, cbAnchors, mode, revealMode, prevRevealMode,
                   audioTime, isLoaded, lastMeasureIndex, opacity, color, located,
                   scrollVars, lifeVars, resizeVars, sheet, outsideViewer>>

NextMapper == Remap

SpecMapper == InitMapper /\ [][NextMapper]_vars

\* C12: a calculateNoteMap run that follows another on the same layout and
\* DOM leaves the lookup structures exactly as the first run made them: same
\* measure keys, same notes (id, measure, timestamp, element) and same glyph
\* lists in the same order, nothing accumulated
C12_MapperIdempotent ==
    [][ (lastOp.op = "map" /\ lastOp'.op = "map" /\ sheet' = sheet)
        => (noteMap' = noteMap /\ glyphMap' = glyphMap) ]_vars

\* the second run on the well-formed sheet, boolean viewer: three measures
\* of notes and the beam of measure 2
C12_Witness ==
    /\ lastOp.op = "map"
    /\ mapRuns = 2
    /\ sheet = MeasureList
    /\ variant = "bool"
    /\ DOMAIN noteMap = {1, 2, 3}
    /\ Len(noteMap[2]) = 2
    /\ glyphMap = (2 :> <<4>>)

\* the pixel edges of measure m of the sheet, and the measures whose
\* interval [left - 10, right + 10] holds the horizontal centre of glyph e
SheetLeftPx(m) ==
    UnitInPixels * MinOf({ sheet[m][k].absX + sheet[m][k].BorderLeft :
                             k \in 1..Len(sheet[m]) })
SheetRightPx(m) ==
    UnitInPixels * (-MinOf({ -(sheet[m][k].absX + sheet[m][k].BorderRight) :
                               k \in 1..Len(sheet[m]) }))
MeasuresHolding(e) ==
    { m \in 1..Len(sheet) :
        /\ 2 * (SheetLeftPx(m) - 10) <= 2 * Dom[e].left + Dom[e].width
        /\ 2 * Dom[e].left + Dom[e].width <= 2 * (SheetRightPx(m) + 10) }
\* how often glyph e is in the content list of measure m
TimesListed(e, m) ==
    IF m \in DOMAIN glyphMap
    THEN Cardinality({ i \in 1..Len(glyphMap[m]) : glyphMap[m][i] = e })
    ELSE 0
SelectedClasses ==
    {"vf-stavenote", "vf-beam", "vf-rest", "vf-accidental", "vf-modifier"}

\* C22: after a Geometry Mapper pass of the three-state viewer every selected
\* glyph is once in the content list of the first measure whose interval
\* [left - 10, right + 10] holds its horizontal centre and in no other list;
\* a glyph whose centre no interval holds is in no list
C22_GlyphInFirstMeasure ==
    (lastOp.op = "map" /\ lastOp.result = "done" /\ variant = "tri") =>
        /\ DOMAIN glyphMap \subseteq 1..Len(sheet)
        /\ \A e \in Elements : \A m \in 1..Len(sheet) :
              TimesListed(e, m) =
                  IF /\ Dom[e].cls \in SelectedClasses
                     /\ m \in MeasuresHolding(e)
                     /\ \A n \in MeasuresHolding(e) : m <= n
                  THEN 1 ELSE 0

\* the well-formed sheet: the accidental whose centre is 1 px inside the box
\* of measure 3 and within 10 px of measure 2 is listed in measure 2
C22_Witness ==
    /\ lastOp.op = "map"
    /\ lastOp.result = "done"
    /\ variant = "tri"
    /\ sheet = MeasureList
    /\ MeasuresHolding(7) = {2, 3}
    /\ glyphMap = (1 :> <<1>>) @@ (2 :> <<2, 3, 4, 7>>) @@ (3 :> <<5, 6>>)

\* no interval holds the centres of the glyphs of a measure without width
C22_WitnessUnmapped ==
    /\ lastOp.op = "map"
    /\ lastOp.result = "done"
    /\ variant = "tri"
    /\ MeasuresHolding(2) = {}
    /\ \A m \in 1..Len(sheet) : TimesListed(2, m) = 0

FiniteInUnit(ts) == ts[2] > 0 /\ 0 <= ts[1] /\ ts[1] <= ts[2]
WellFormedMeasure(ml, m) ==
    \A k \in 1..Len(ml[m]) :
        ml[m][k].shape /\ ml[m][k].BorderRight > ml[m][k].BorderLeft

\* C13: a Geometry Mapper pass over a layout with a staff measure that has no
\* PositionAndShape or no width does not throw, maps no note with a
\* non-finite or out-of-[0,1] timestamp, and maps every well-formed measure
\* as it would be mapped in a well-formed layout
C13_MalformedSkipped ==
    lastOp.op = "map" =>
        /\ lastOp.result = "done"
        /\ \A m \in DOMAIN noteMap : \A i \in 1..Len(noteMap[m]) :
               FiniteInUnit(noteMap[m][i].timestamp)
        /\ \A m \in DOMAIN BuildNoteMap :
               WellFormedMeasure(sheet, m) =>
                   (m \in DOMAIN noteMap /\ noteMap[m] = BuildNoteMap[m])

----------------------------------------------------------------------------
(* The viewer's life: load, reload, unmount, resize, the animation loop *)

\* engines one run creates (the first, and one per change of musicXmlUrl)
MaxLoads == 2
\* resize timers pending at once
MaxTimers == 2
\* setTimeout(..., 500) of handleResize, and the step of the clock, in ms
ResizeDelay == 500
TickMs == 250

LifeAnchorTables == { << Anchor(1, 0), Anchor(2, 1), Anchor(3, 2) >> }

InitLife == MountedViewer(LifeAnchorTables, {WideContainer})

\* osmd.load(...).catch of engine g: the error is logged
LoadFailed(g) ==
    /\ loads[g] = "pending"
    /\ loads' = [loads EXCEPT ![g] = "failed"]
    /\ lastOp' = Op("load", "failed", 0)
    /\ UNCHANGED <<viewerVars, scrollVars, mounted, osmdRef, rafPending,
                   rafOrphans, resizeVars, mapperVars, outsideViewer>>

\* the application passes a new musicXmlUrl prop: the init effect's cleanup
\* (osmdRef.current = null, setIsLoaded(false)) and then the effect again, a
\* new engine and its load; with isLoaded false the animate effect's cleanup
\* cancels the pending frame
SetUrl ==
    /\ mounted
    /\ Len(loads) < MaxLoads
    /\ osmdRef' = Len(loads) + 1
    /\ loads' = Append(loads, "pending")
    /\ isLoaded' = FALSE
    /\ LET after == LoopEffect(Loop, isLoaded, FALSE)
       IN  rafPending' = after.current /\ rafOrphans' = after.orphans
    /\ located' = NoLocation
    /\ lastOp' = Op("url", "done", 0)
    /\ UNCHANGED <<variant, anchors, cbAnchors, mode, revealMode, prevRevealMode,
                   audioTime, lastMeasureIndex, noteMap, glyphMap, opacity, color,
                   scrollVars, mounted, resizeVars, mapperVars, outsideViewer>>

\* the component unmounts: every effect's cleanup runs (osmdRef.current =
\* null, the resize listener removed, the pending frame cancelled)
Unmount ==
    /\ mounted
    /\ mounted' = FALSE
    /\ osmdRef' = 0
    /\ isLoaded' = FALSE
    /\ LET after == LoopEffect(Loop, isLoaded, FALSE)
       IN  rafPending' = after.current /\ rafOrphans' = after.orphans
    /\ located' = NoLocation
    /\ lastOp' = Op("unmount", "done", 0)
    /\ UNCHANGED <<variant, anchors, cbAnchors, mode, revealMode, prevRevealMode,
                   audioTime, lastMeasureIndex, noteMap, glyphMap, opacity, color,
                   scrollVars, loads, resizeVars, mapperVars, outsideViewer>>

\* a window resize event: handleResize sets a timer of its own; an event
\* that finds no timer pending starts a burst
handleResize ==
    /\ mounted
    /\ Len(resizeTimers) < MaxTimers
    /\ mapRuns + Len(resizeTimers) <= MaxMapRuns
    /\ resizeTimers' = Append(resizeTimers, ResizeDelay)
    /\ burstRebuilds' = IF resizeTimers = << >> THEN 0 ELSE burstRebuilds
    /\ lastOp' = Op("resize", "done", 0)
    /\ UNCHANGED <<viewerVars, scrollVars, lifeVars, renderTimers, mapperVars,
                   outsideViewer>>

\* the clock advances while no pending timer is due
Tick ==
    /\ resizeTimers # << >>
    /\ \A i \in 1..Len(resizeTimers) : resizeTimers[i] > 0
    /\ resizeTimers' = [i \in 1..Len(resizeTimers) |->
                            Max(0, resizeTimers[i] - TickMs)]
    /\ lastOp' = Op("idle", "done", 0)
    /\ UNCHANGED <<viewerVars, scrollVars, lifeVars, burstRebuilds, renderTimers,
                   mapperVars, outsideViewer>>

\* the timers from k on, without the first one that is due
RECURSIVE WithoutFirstDue(_, _)
WithoutFirstDue(timers, k) ==
    IF k > Len(timers) THEN << >>
    ELSE IF timers[k] = 0 THEN SubSeq(timers, k + 1, Len(timers))
    ELSE << timers[k] >> \o WithoutFirstDue(timers, k + 1)

\* a due timer of handleResize fires: calculateNoteMap(), which returns at
\* once unless osmdRef.current is an engine with a GraphicSheet
ResizeTimerFires ==
    /\ \E i \in 1..Len(resizeTimers) : resizeTimers[i] = 0
    /\ resizeTimers' = WithoutFirstDue(resizeTimers, 1)
    /\ LET built == IF SheetReady THEN calculateNoteMap(sheet, noteMap, glyphMap)
                    ELSE [threw |-> FALSE, noteMap |-> noteMap,
                          glyphMap |-> glyphMap]
       IN  /\ noteMap' = built.noteMap
           /\ glyphMap' = built.glyphMap
           /\ lastOp' = Op("timer", IF ~SheetReady THEN "skipped"
                                    ELSE IF built.threw THEN "threw"
                                    ELSE "done", 0)
    /\ burstRebuilds' = IF SheetReady THEN burstRebuilds + 1 ELSE burstRebuilds
    /\ mapRuns' = IF SheetReady THEN mapRuns + 1 ELSE mapRuns
    /\ UNCHANGED <<variant, anchors, cbAnchors, mode, revealMode, prevRevealMode,
                   audioTime, isLoaded, lastMeasureIndex, opacity, color, located,
                   scrollVars, lifeVars, renderTimers, sheet, outsideViewer>>

NextLife ==
    \/ \E g \in 1..Len(loads) : LoadResolved(g)
    \/ \E g \in 1..Len(loads) : LoadFailed(g)
    \/ SetUrl
    \/ Unmount
    \/ FrameStep
    \/ \E md \in {"PLAYBACK", "RECORD"} : SetMode(md)
    \/ handleResize
    \/ Tick
    \/ ResizeTimerFires

SpecLife == InitLife /\ [][NextLife]_vars

\* C14: a burst of resize events with gaps under 500 ms gives one Geometry
\* Mapper rebuild after the burst, not one per event, and no timer rebuilds
\* after the component has unmounted
C14_ResizeDebounced ==
    /\ burstRebuilds <= 1
    /\ (lastOp.op = "timer" /\ ~mounted) => lastOp.result = "skipped"

\* C15: a frame is pending only while the component is mounted and the
\* score is in the loaded state, so a frame step runs only then; when the
\* load of the current score has failed the viewer is not loaded and no
\* frame is scheduled
C15_FramesOnlyWhenLoaded ==
    /\ rafPending => (mounted /\ isLoaded)
    /\ (osmdRef # 0 /\ loads[osmdRef] = "failed") => (~isLoaded /\ ~rafPending)

\* C23: while the viewer is in the loaded state, the engine instance it
\* references is one whose own load has completed; a load of an instance the
\* viewer has left behind sets no loaded state
C23_LoadedEngineHasLoaded == isLoaded => SheetReady

FrameThrew == lastOp.op = "frame" /\ lastOp.result = "threw"

\* C16: a frame step whose positioning code threw has caught the exception
\* and asked for the next frame: after it the viewer is still mounted and
\* loaded and a frame is pending
C16_LoopSurvivesThrow ==
    FrameThrew => (mounted /\ isLoaded /\ rafPending)

C16_Witness ==
    /\ FrameThrew
    /\ variant = "bool"
    /\ mode = "RECORD"
    /\ rafPending
    /\ color[1] = DefaultColor

----------------------------------------------------------------------------
(* projectService.saveProject *)

\* file names as lists of characters; the characters [a-zA-Z0-9.-] among them
AudioFileNames == { <<"t", " ", "1">>, <<"t", ".", "a">> }
XmlFileNames == { <<"s", "#", "x">> }
SafeChars == {"t", "a", "s", "x", "1", ".", "-"}
Titles == {"etude", "waltz"}
\* values of Date.now()
Timestamps == {1, 2}

\* fileName.replace(/[^a-zA-Z0-9.-]/g, '_')
cleanFileName(fileName) ==
    [i \in 1..Len(fileName) |->
        IF fileName[i] \in SafeChars THEN fileName[i] ELSE "_"]

\* `${timestamp}_${cleanName}`, and the public URL of an object of 'scores'
StoredName(timestamp, file) == <<timestamp, "_">> \o cleanFileName(file)
PublicUrl(fileName) == [bucket |-> "scores", name |-> fileName]

\* the request uploadFile(file) sends at time now
UploadRequest(step, now, file) ==
    [step |-> step, payload |-> StoredName(now, file)]
\* the row saveProject inserts
ProjectRow(v) ==
    [title |-> v.title, audio_url |-> v.audioUrl[1], xml_url |-> v.xmlUrl[1],
     anchors |-> v.anchors]

\* mutant: a failed upload is not thrown
UploadThrows_Ignored(res) == FALSE
\* if (uploadError) throw uploadError
UploadThrows(res) == res = "error"

InitSave ==
    /\ variant = "tri"
    /\ anchors \in ViewerAnchorTables
    /\ cbAnchors = anchors
    /\ mode = "RECORD"
    /\ revealMode = "OFF"
    /\ prevRevealMode = "OFF"
    /\ audioTime = 0
    /\ isLoaded = FALSE
    /\ lastMeasureIndex = -1
    /\ noteMap = << >>
    /\ glyphMap = << >>
    /\ opacity = << >>
    /\ color = << >>
    /\ located = NoLocation
    /\ lastOp = Op("idle", "done", 0)
    /\ ScrollAtRest(0)
    /\ mounted = FALSE
    /\ osmdRef = 0
    /\ loads = << >>
    /\ rafPending = FALSE
    /\ rafOrphans = 0
    /\ NoTimers
    /\ sheet = << >>
    /\ mapRuns = 0
    /\ OutsideIdle

\* saveProject(title, audioFile, xmlFile, anchors) is called and runs to its
\* first await: the audio upload is sent
saveProject(title, audioFile, xmlFile) ==
    /\ svc.pc \in {"idle", "done"}
    /\ \E now \in Timestamps :
          svc' = [NoSave EXCEPT
                    !.pc = "audio", !.title = title, !.audioFile = audioFile,
                    !.xmlFile = xmlFile, !.anchors = anchors, !.now = now,
                    !.log = << UploadRequest("uploadAudio", now, audioFile) >>]
    /\ UNCHANGED <<viewerVars, lastOp, scrollVars, lifeVars, resizeVars,
                   mapperVars, sidebar>>

\* the storage service answers the upload under way; saveProject resumes
UploadResponds(res) ==
    /\ svc.pc \in {"audio", "xml"}
    /\ LET url == PublicUrl(svc.log[Len(svc.log)].payload)
           got == [svc EXCEPT !.replies = Append(@, res)]
       IN  IF UploadThrows(res)
           THEN svc' = [got EXCEPT !.pc = "done", !.outcome = "threw",
                                   !.error = svc.log[Len(svc.log)].step]
           ELSE IF svc.pc = "audio"
           THEN \E now \in { t \in Timestamps : t >= svc.now } :
                  svc' = [got EXCEPT
                            !.pc = "xml", !.audioUrl = << url >>, !.now = now,
                            !.log = Append(@, UploadRequest("uploadXml", now,
                                                            svc.xmlFile))]
           ELSE LET v == [got EXCEPT !.xmlUrl = << url >>]
                IN  svc' = [v EXCEPT
                              !.pc = "insert",
                              !.log = Append(@, [step |-> "insert",
                                                 payload |-> ProjectRow(v)])]
    /\ UNCHANGED <<viewerVars, lastOp, scrollVars, lifeVars, resizeVars,
                   mapperVars, sidebar>>

\* the database answers the insert; saveProject throws the error or returns
\* data[0]
InsertResponds(res) ==
    /\ svc.pc = "insert"
    /\ svc' = IF res = "error"
              THEN [svc EXCEPT !.pc = "done", !.outcome = "threw",
                               !.error = "insert", !.replies = Append(@, res)]
              ELSE [svc EXCEPT !.pc = "done", !.outcome = "returned",
                               !.row = << svc.log[Len(svc.log)].payload >>,
                               !.replies = Append(@, res)]
    /\ UNCHANGED <<viewerVars, lastOp, scrollVars, lifeVars, resizeVars,
                   mapperVars, sidebar>>

NextSave ==
    \/ \E t \in Titles, a \in AudioFileNames, x \in XmlFileNames :
          saveProject(t, a, x)
    \/ \E res \in {"ok", "error"} : UploadResponds(res)
    \/ \E res \in {"ok", "error"} : InsertResponds(res)

SpecSave == InitSave /\ [][NextSave]_vars

SaveSteps == << "uploadAudio", "uploadXml", "insert" >>

\* C17: the requests of one saveProject call are a prefix of audio upload,
\* XML upload, insert, each sent once; the insert is sent only after both
\* uploads succeeded; a failed step ends the call with its error thrown and
\* nothing sent after it; a call that returns gives the inserted row
C17_SaveStepsInOrder ==
    LET n == Len(svc.log)
    IN  /\ n <= 3
        /\ \A i \in 1..n : svc.log[i].step = SaveSteps[i]
        /\ n = 3 => (svc.replies[1] = "ok" /\ svc.replies[2] = "ok"
                     /\ svc.audioUrl # << >> /\ svc.xmlUrl # << >>)
        /\ \A i \in 1..Len(svc.replies) :
              svc.replies[i] = "error" =>
                  (i = n /\ svc.outcome = "threw" /\ svc.error = SaveSteps[i])
        /\ svc.outcome = "threw" =>
              (svc.pc = "done" /\ n >= 1 /\ svc.error = SaveSteps[n]
               /\ svc.row = << >>)
        /\ svc.outcome = "returned" =>
              /\ svc.pc = "done" /\ n = 3
              /\ svc.row = << [title |-> svc.title,
                               audio_url |-> svc.audioUrl[1],
                               xml_url |-> svc.xmlUrl[1],
                               anchors |-> svc.anchors] >>
              /\ svc.anchors = anchors

\* the XML upload failed: its error is thrown, the audio was uploaded once,
\* no insert was sent
C17_Witness ==
    /\ svc.outcome = "threw"
    /\ svc.error = "uploadXml"
    /\ Len(svc.log) = 2
    /\ svc.audioUrl = << PublicUrl(<<1, "_", "t", "_", "1">>) >>

----------------------------------------------------------------------------
(* AnchorSidebar: the controls it renders and the handlers they call *)

\* the anchors prop: any list the parent may pass, measure 1 present or not,
\* measures repeated or below 1
SidebarAnchorValues ==
    { Anchor(m, t) : m \in 0..(MaxMeasure + 1), t \in 0..1 }
SidebarAnchorLists == SeqsUpTo(SidebarAnchorValues, 2)

\* the optional handler props, and the sets of them the parent passes
OptionalHandlers ==
    {"upsertAnchor", "handleDelete", "handleRestamp", "toggleMode",
     "handleAudioSelect", "handleXmlSelect"}
ProvidedHandlers ==
    {OptionalHandlers, {}} \cup { OptionalHandlers \ {h} : h \in OptionalHandlers }

\* what the user leaves in a time input: nothing, or a number
TypedTexts == { << >> } \cup { << Rat(t, 1) >> : t \in 0..1 }
\* parseFloat of an empty input is NaN
parseFloat(text) == IF text = << >> THEN NaN ELSE text[1]

\* a handler prop called by a control: the measure passed (0: none), the time
\* passed (NoTime: none) and the mode prop at that moment
NoTime == <<-1, 1>>
Call(handler, measure, time, md) ==
    [handler |-> handler, measure |-> measure, time |-> time, mode |-> md]
NoCall == Call("none", 0, NoTime, "")

\* const maxMeasure = anchors.length > 0 ? Math.max(...) : 0
maxMeasure(a) ==
    IF Len(a) > 0
    THEN CHOOSE m \in { a[i].measure : i \in 1..Len(a) } :
            \A i \in 1..Len(a) : a[i].measure <= m
    ELSE 0

\* anchors.find(a => a.measure === m): the first one, << >> for undefined
FindAnchor(a, m) ==
    LET at == { i \in 1..Len(a) : a[i].measure = m }
    IN  IF at = {} THEN << >>
        ELSE << a[CHOOSE i \in at : \A j \in at : i <= j] >>

\* disabled={mode !== 'RECORD' || m === 1}
\* mutant: the input of measure 1 is enabled while recording
TimeInputDisabled_AnyMeasure(md, m) == md # "RECORD"

TimeInputDisabled(md, m) == md # "RECORD" \/ m = 1

\* {m !== 1 && mode === 'RECORD' && handleDelete && (<button>)}
DeleteButtonShown(md, m, provided) ==
    m # 1 /\ md = "RECORD" /\ "handleDelete" \in provided

\* {mode === 'RECORD' && handleRestamp && (<button>Fix</button>)}
FixButtonShown(md, provided) ==
    md = "RECORD" /\ "handleRestamp" \in provided

\* Clear All and TAP: disabled={mode !== 'RECORD'}
FooterDisabled(md) == md # "RECORD"

\* the row the loop pushes for measure m: an anchor row with its time input
\* and delete button, or a ghost row with its Fix button
Row(a, md, provided, m) ==
    LET anchor == FindAnchor(a, m)
    IN  IF anchor # << >>
        THEN [ghost |-> FALSE, anchor |-> anchor,
              timeInput |-> ~TimeInputDisabled(md, m),
              deleteButton |-> DeleteButtonShown(md, m, provided),
              fixButton |-> FALSE]
        ELSE [ghost |-> TRUE, anchor |-> << >>,
              timeInput |-> FALSE,
              deleteButton |-> FALSE,
              fixButton |-> FixButtonShown(md, provided)]

\* for (let m = 1; m <= maxMeasure; m++) rows.push(...)
rows(a, md, provided) ==
    [ m \in 1..maxMeasure(a) |-> Row(a, md, provided, m) ]

SidebarRows == rows(sidebar.anchors, sidebar.mode, sidebar.provided)

Rendered(a, md, provided) ==
    [shown |-> TRUE, anchors |-> a, mode |-> md, provided |-> provided,
     call |-> NoCall]

InitSidebar ==
    /\ variant = "tri"
    /\ anchors = << >>
    /\ cbAnchors = anchors
    /\ mode = "RECORD"
    /\ revealMode = "OFF"
    /\ prevRevealMode = "OFF"
    /\ audioTime = 0
    /\ isLoaded = FALSE
    /\ lastMeasureIndex = -1
    /\ noteMap = << >>
    /\ glyphMap = << >>
    /\ opacity = << >>
    /\ color = << >>
    /\ located = NoLocation
    /\ lastOp = Op("idle", "done", 0)
    /\ ScrollAtRest(0)
    /\ mounted = FALSE
    /\ osmdRef = 0
    /\ loads = << >>
    /\ rafPending = FALSE
    /\ rafOrphans = 0
    /\ NoTimers
    /\ sheet = << >>
    /\ mapRuns = 0
    /\ svc = NoSave
    /\ \E a \in SidebarAnchorLists, md \in {"PLAYBACK", "RECORD"},
          provided \in ProvidedHandlers :
          sidebar = Rendered(a, md, provided)

SidebarCalls(c) ==
    /\ sidebar' = [sidebar EXCEPT !.call = c]
    /\ UNCHANGED <<viewerVars, lastOp, scrollVars, lifeVars, resizeVars,
                   mapperVars, svc>>

\* the parent renders the sidebar again with other props
Rerender(a, md) ==
    /\ sidebar.shown
    /\ sidebar' = [sidebar EXCEPT !.anchors = a, !.mode = md]
    /\ UNCHANGED <<viewerVars, lastOp, scrollVars, lifeVars, resizeVars,
                   mapperVars, svc>>

\* onChange of the time input of row m; a disabled input takes no input
ChangeTime(m, text) ==
    /\ sidebar.shown
    /\ m \in DOMAIN SidebarRows
    /\ SidebarRows[m].timeInput
    /\ SidebarCalls(IF "upsertAnchor" \in sidebar.provided
                    THEN Call("upsertAnchor", m, parseFloat(text), sidebar.mode)
                    ELSE NoCall)

\* onClick of the delete button of row m (stopPropagation: the row's own
\* onClick does not run)
ClickDelete(m) ==
    /\ sidebar.shown
    /\ m \in DOMAIN SidebarRows
    /\ SidebarRows[m].deleteButton
    /\ SidebarCalls(Call("handleDelete", m, NoTime, sidebar.mode))

\* onClick of the Fix button of ghost row m
ClickFix(m) ==
    /\ sidebar.shown
    /\ m \in DOMAIN SidebarRows
    /\ SidebarRows[m].fixButton
    /\ SidebarCalls(Call("handleRestamp", m, NoTime, sidebar.mode))

\* onClick of anchor row m
ClickRow(m) ==
    /\ sidebar.shown
    /\ m \in DOMAIN SidebarRows
    /\ ~SidebarRows[m].ghost
    /\ SidebarCalls(Call("handleJumpToMeasure", 0,
                         Rat(SidebarRows[m].anchor[1].time, 1), sidebar.mode))

\* the mode button, the two file inputs
ClickOptional(h) ==
    /\ sidebar.shown
    /\ h \in sidebar.provided
    /\ SidebarCalls(Call(h, 0, NoTime, sidebar.mode))

\* Clear All and TAP
ClickFooter(h) ==
    /\ sidebar.shown
    /\ ~FooterDisabled(sidebar.mode)
    /\ SidebarCalls(Call(h, 0, NoTime, sidebar.mode))

NextSidebar ==
    \/ \E a \in SidebarAnchorLists, md \in {"PLAYBACK", "RECORD"} : Rerender(a, md)
    \/ \E m \in 1..(MaxMeasure + 1), text \in TypedTexts : ChangeTime(m, text)
    \/ \E m \in 1..(MaxMeasure + 1) : ClickDelete(m)
    \/ \E m \in 1..(MaxMeasure + 1) : ClickFix(m)
    \/ \E m \in 1..(MaxMeasure + 1) : ClickRow(m)
    \/ \E h \in {"toggleMode", "handleAudioSelect", "handleXmlSelect"} :
          ClickOptional(h)
    \/ \E h \in {"handleReset", "handleTap"} : ClickFooter(h)

SpecSidebar == InitSidebar /\ [][NextSidebar]_vars

\* measure 1 has an anchor in the list the sidebar shows
MeasureOneAnchored == FindAnchor(sidebar.anchors, 1) # << >>

\* C18: whatever anchors and mode the sidebar is given, the row of an
\* anchored measure 1 has a disabled time input, no delete button and no
\* Fix button, and every call of upsertAnchor or handleDelete names a measure
\* of at least 2 and is made while the mode is RECORD
C18_MeasureOneImmutable ==
    sidebar.shown =>
        /\ MeasureOneAnchored =>
              /\ ~SidebarRows[1].timeInput
              /\ ~SidebarRows[1].deleteButton
              /\ ~SidebarRows[1].fixButton
        /\ sidebar.call.handler \in {"upsertAnchor", "handleDelete"} =>
              (sidebar.call.measure >= 2 /\ sidebar.call.mode = "RECORD")

\* the time of measure 2 was edited in a list that anchors measure 1, while
\* recording
C18_Witness ==
    /\ sidebar.shown
    /\ MeasureOneAnchored
    /\ sidebar.mode = "RECORD"
    /\ sidebar.call = Call("upsertAnchor", 2, Rat(1, 1), "RECORD")

----------------------------------------------------------------------------
(* The animation loop under loads, prop changes, frames and unmount *)

LoopAnchorTables ==
    { << Anchor(1, 0), Anchor(2, 1), Anchor(3, 2) >>,
      << Anchor(2, 0), Anchor(3, 2) >> }

InitLoop == MountedViewer(LoopAnchorTables, {WideContainer})

NextLoop ==
    \/ \E g \in 1..Len(loads) : LoadResolved(g)
    \/ \E g \in 1..Len(loads) : LoadFailed(g)
    \/ SetUrl
    \/ Unmount
    \/ FrameStep
    \/ \E a \in LoopAnchorTables : SetAnchors(a)
    \/ \E r \in RevealModes : SetRevealMode(r)
    \/ \E md \in {"PLAYBACK", "RECORD"} : SetMode(md)

SpecLoop == InitLoop /\ [][NextLoop]_vars

\* C24: at most one frame request of the viewer is pending at any time, and
\* it is the one animationFrameRef holds: no restart of the loop effect, load,
\* frame or unmount leaves an older request alive; an unmounted or unloaded
\* viewer has none
C24_OneFramePending ==
    /\ rafOrphans = 0
    /\ rafPending => (mounted /\ isLoaded)

\* the loop was restarted by a mode change after frames had run, and one
\* request is pending
C24_Witness ==
    /\ lastOp.op = "idle"
    /\ mode = "RECORD"
    /\ lastMeasureIndex # -1
    /\ isLoaded
    /\ rafPending
    /\ rafOrphans = 0

----------------------------------------------------------------------------
(* "Cursor Math" of updateCursorPosition over generated measures *)

\* where the first note of a staff sits, in layout units from the staff's
\* left edge: on the edge, 10 px and 20 px right of it, mid-measure
FirstNoteXs == {0, 1, 2, 30}
\* the staves of one measure of a system: one or two staves with the
\* same horizontal box, each with no entry or a first entry inside the box
CursorStaves(x, w) ==
    LET staff == { StaffMeasure(x, 0, w, 4, << >>) }
                 \cup { StaffMeasure(x, 0, w, 4, << StaffEntry(n, << >>) >>) :
                          n \in FirstNoteXs }
    IN  { << a >> : a \in staff } \cup { << a, b >> : a \in staff, b \in staff }
\* the active measure's number and staves, and the progress inside it
CursorMeasures == 1..MaxMeasure
CursorProgress == { RatZero, Rat(1, 3), Rat(1, 2), RatOne }

InitCursor ==
    /\ variant = "tri"
    /\ anchors = << >>
    /\ cbAnchors = anchors
    /\ mode = "PLAYBACK"
    /\ revealMode = "OFF"
    /\ prevRevealMode = "OFF"
    /\ audioTime = 0
    /\ isLoaded = FALSE
    /\ lastMeasureIndex = -1
    /\ noteMap = << >>
    /\ glyphMap = << >>
    /\ opacity = << >>
    /\ color = << >>
    /\ \E m \in CursorMeasures, p \in CursorProgress :
          located = [measure |-> m, progress |-> p]
    /\ lastOp = Op("idle", "done", 0)
    /\ ScrollAtRest(0)
    /\ mounted = FALSE
    /\ osmdRef = 0
    /\ loads = << >>
    /\ rafPending = FALSE
    /\ rafOrphans = 0
    /\ NoTimers
    /\ \E x \in {0, 100}, w \in {40, 100} : sheet \in CursorStaves(x, w)
    /\ mapRuns = 0
    /\ OutsideIdle

\* lines "Cursor Math" to "Update DOM" for the measure and progress found:
\* cursorRef.current.style.left = `${cursorX}px`
PlaceCursor ==
    /\ LET ext == MeasureExtents(sheet)
           visualStart == VisualStartPx(located.measure, ext)
       IN  cursorLeft' = CursorX(ext, visualStart, located.progress)
    /\ lastOp' = Op("cursor", "done", 0)
    /\ UNCHANGED <<viewerVars, scrollLeft, smoothTarget, containerWidth,
                   lifeVars, resizeVars, mapperVars, outsideViewer>>

\* playback moves on: another measure or progress is found
MoveOn(m, p) ==
    /\ located' = [measure |-> m, progress |-> p]
    /\ lastOp' = Op("idle", "done", 0)
    /\ UNCHANGED <<variant, anchors, cbAnchors, mode, revealMode, prevRevealMode,
                   audioTime, isLoaded, lastMeasureIndex, noteMap, glyphMap,
                   opacity, color, scrollVars, lifeVars, resizeVars, mapperVars,
                   outsideViewer>>

NextCursor ==
    \/ PlaceCursor
    \/ \E m \in CursorMeasures, p \in CursorProgress : MoveOn(m, p)

SpecCursor == InitCursor /\ [][NextCursor]_vars

\* the pixel edges of the measure of `sheet`, and its first note's pixel x
\* (the least over the staves that have an entry; -1 when none has)
LeftEdgePx == UnitInPixels * MinOf({ sheet[i].absX : i \in 1..Len(sheet) })
RightEdgePx ==
    UnitInPixels * (-MinOf({ -(sheet[i].absX + sheet[i].BorderRight) :
                               i \in 1..Len(sheet) }))
WithEntry == { i \in 1..Len(sheet) : sheet[i].staffEntries # << >> }
FirstNotePx ==
    IF WithEntry = {} THEN -1
    ELSE UnitInPixels * MinOf({ sheet[i].absX + sheet[i].staffEntries[1].relX :
                                  i \in WithEntry })
\* where the claim lets the cursor start
ClaimedStartPx ==
    IF located.measure = 1 /\ FirstNotePx # -1
    THEN (IF FirstNotePx - 12 < LeftEdgePx THEN LeftEdgePx ELSE FirstNotePx - 12)
    ELSE LeftEdgePx

\* C21: the cursor is placed at start + (right - start) * progress, start
\* being the measure's left edge, or in measure 1 the first note's x less
\* 12 px when that is not left of the left edge; so it lies between the
\* measure's edges, at start for progress 0 and at the right edge for
\* progress 1
C21_CursorPixel ==
    lastOp.op = "cursor" =>
        LET p == located.progress
            x == cursorLeft
        IN  /\ x[1] * p[2] =
                  x[2] * (ClaimedStartPx * p[2]
                            + (RightEdgePx - ClaimedStartPx) * p[1])
            /\ LeftEdgePx * x[2] <= x[1]
            /\ x[1] <= RightEdgePx * x[2]
            /\ p = RatZero => x = Rat(ClaimedStartPx, 1)
            /\ p = RatOne => x = Rat(RightEdgePx, 1)

\* measure 1 whose first note is 10 px from the left edge: the cursor starts
\* on the edge and is a third of the way along
C21_Witness ==
    /\ lastOp.op = "cursor"
    /\ located = [measure |-> 1, progress |-> Rat(1, 3)]
    /\ FirstNotePx = LeftEdgePx + 10
    /\ LeftEdgePx = 1000
    /\ RightEdgePx = 1400
    /\ cursorLeft = Rat(3400, 3)

----------------------------------------------------------------------------
(* The viewer in a window narrower than the staffline: auto-scroll *)

NarrowContainer == 1000
ScrollAnchorTables ==
    { << Anchor(1, 0), Anchor(2, 1), Anchor(3, 2) >>,
      << Anchor(1, 0), Anchor(3, 2) >> }
\* offsets the user drags the container to
UserScrollOffsets == {0, 300, 900, 2000}

InitScroll == MountedViewer(ScrollAnchorTables, {NarrowContainer})

\* the user scrolls the container by hand, which ends a smooth scroll
UserScroll(x) ==
    /\ mounted
    /\ scrollLeft' = ClampScroll(Rat(x, 1), containerWidth)
    /\ smoothTarget' = NoScroll
    /\ lastOp' = Op("idle", "done", 0)
    /\ UNCHANGED <<viewerVars, containerWidth, cursorLeft, lifeVars, resizeVars,
                   mapperVars, outsideViewer>>

\* the browser completes the smooth scroll under way
ScrollAnimate ==
    /\ smoothTarget # NoScroll
    /\ scrollLeft' = smoothTarget
    /\ smoothTarget' = NoScroll
    /\ lastOp' = Op("idle", "done", 0)
    /\ UNCHANGED <<variant, anchors, cbAnchors, mode, revealMode, prevRevealMode,
                   audioTime, isLoaded, lastMeasureIndex, noteMap, glyphMap,
                   opacity, color, located, containerWidth, cursorLeft,
                   lifeVars, resizeVars, mapperVars, outsideViewer>>

NextScroll ==
    \/ \E g \in 1..Len(loads) : LoadResolved(g)
    \/ FrameStep
    \/ AudioAdvance
    \/ \E x \in UserScrollOffsets : UserScroll(x)
    \/ ScrollAnimate

SpecScroll == InitScroll /\ [][NextScroll]_vars

\* the frame that just ran got past its early returns
FramePositioned(op) == op.op = "frame" /\ op.result # "skipped"
\* cursorX - 20% of the container's width, for what a frame located
FrameTarget(loc, w) ==
    LET ext == Extents[loc.measure]
        cursorX == CursorX(ext, VisualStartPx(loc.measure, ext), loc.progress)
    IN  RatSub(cursorX, Rat(w, 5))
Far(from, to) == RatLt(Rat(250, 1), RatAbs(RatSub(from, to)))

\* C11 as stated: in a frame step, when the container's offset is more than
\* 250px from target = cursorX - 20% of its width, the frame sets the offset
\* to the target at once
C11_FarOffsetApplied ==
    [][ (FramePositioned(lastOp')
         /\ Far(scrollLeft, FrameTarget(located', containerWidth)))
        => scrollLeft' = ClampScroll(FrameTarget(located', containerWidth),
                                     containerWidth) ]_vars

\* C11 as the code has it: a frame step sets the container's offset to
\* target = cursorX - 20% of its width at once when the offset is at most
\* 250px from the target; when it is farther the frame leaves the offset
\* alone, and only a frame that enters another measure starts a smooth
\* scroll to the target
C11_NearOffsetApplied ==
    [][ FramePositioned(lastOp') =>
          LET target == FrameTarget(located', containerWidth)
              goal == ClampScroll(target, containerWidth)
          IN  IF Far(scrollLeft, target)
              THEN /\ scrollLeft' = scrollLeft
                   /\ smoothTarget' =
                        IF located'.measure - 1 # lastMeasureIndex
                        THEN (IF goal = scrollLeft THEN NoScroll ELSE goal)
                        ELSE smoothTarget
              ELSE scrollLeft' = goal ]_vars

\* a frame found the cursor in measure 2 with the container still at offset
\* 0, 800px from the target: the offset stays, a smooth scroll is under way
C11_Witness ==
    /\ FramePositioned(lastOp)
    /\ containerWidth = NarrowContainer
    /\ located = [measure |-> 2, progress |-> RatZero]
    /\ scrollLeft = RatZero
    /\ smoothTarget = Rat(800, 1)

----------------------------------------------------------------------------
(* Claims about the viewer, under Spec *)

ViewerOps == {"frame", "click", "reveal"}

\* C6: the per-frame step, click-to-seek and every findCurrentMeasure call
\* (frames, the reveal effect) leave the anchor list's contents and order as
\* they were, and what a frame locates is findCurrentMeasure of the current
\* anchor list at the current audio time, whatever frames, clicks and anchor
\* edits came before
C6_ViewerKeepsAnchors ==
    [][ /\ lastOp'.op \in ViewerOps => anchors' = anchors
        /\ lastOp'.op = "frame" =>
              located' = findCurrentMeasure(anchors', audioTime') ]_vars

C6_Witness ==
    /\ lastOp.op = "frame"
    /\ lastOp.result = "done"
    /\ anchors = << Anchor(2, 2), Anchor(1, 0) >>
    /\ audioTime = 2
    /\ located = [measure |-> 2, progress |-> RatZero]

\* the anchors of a list with measure <= m
AtOrBefore(q, m) == { i \in Indices(q) : q[i].measure <= m }
GreatestMeasure(q, m) ==
    CHOOSE i \in AtOrBefore(q, m) :
        \A j \in AtOrBefore(q, m) : q[j].measure <= q[i].measure

\* C7: a click that hits measure m while some anchor has measure <= m sets
\* the audio time to the time of the anchor of greatest measure <= m,
\* wherever in the box it landed; a click that hits no box, or a measure
\* with no anchor at or before it, leaves the audio time as it was
C7_ClickSeeksAnchorTime ==
    [][ lastOp'.op = "click" =>
          LET m == lastOp'.hit
          IN  IF m # 0 /\ AtOrBefore(anchors, m) # {}
              THEN audioTime' = anchors[GreatestMeasure(anchors, m)].time
              ELSE audioTime' = audioTime ]_vars

C7_Witness ==
    /\ lastOp.op = "click"
    /\ lastOp.hit = 3
    /\ lastOp.result = "seek"
    /\ anchors = << Anchor(2, 2), Anchor(1, 0) >>
    /\ audioTime = 2
    /\ lastMeasureIndex = 0

\* the glyphs the viewer's maps hold for measure m
MappedGlyphs(m) ==
    (IF m \in DOMAIN glyphMap THEN SeqSet(glyphMap[m]) ELSE {})
    \cup (IF variant = "bool" /\ m \in DOMAIN noteMap
          THEN NoteEls(noteMap[m]) ELSE {})
NonNoteGlyphs(m) ==
    { e \in MappedGlyphs(m) : Dom[e].cls \in {"vf-beam", "vf-rest"} }

\* C8: after a handler that ran the reveal sweep with current measure c,
\* every mapped glyph of a measure before c has opacity 1, every mapped glyph
\* of a measure after c has opacity 0, and every beam and rest of c has
\* opacity 1
C8_RevealSweep ==
    lastOp.swept # 0 =>
        LET c == lastOp.swept
        IN  /\ \A m \in 1..Len(MeasureList) :
                  /\ m < c => \A e \in MappedGlyphs(m) : opacity[e] = 1
                  /\ m > c => \A e \in MappedGlyphs(m) : opacity[e] = 0
            /\ \A e \in NonNoteGlyphs(c) : opacity[e] = 1

C8_Witness ==
    /\ lastOp.op = "frame"
    /\ lastOp.swept = 2
    /\ opacity = <<1, 0, 0, 1, 0, 0, 1>>

\* the highlight progress of the frame that just ran, from what it located
FrameHighlightProgress ==
    LET ext == Extents[located.measure]
    IN  HighlightProgress(ext, VisualStartPx(located.measure, ext),
                          located.progress)

\* timestamp - 0.04 <= hp <= timestamp + 0.01, in integers
InHighlightWindow(hp, ts) ==
    /\ (100 * ts[1] - 4 * ts[2]) * hp[2] <= 100 * hp[1] * ts[2]
    /\ 100 * hp[1] * ts[2] <= (100 * ts[1] + ts[2]) * hp[2]

FrameCompleted == lastOp.op = "frame" /\ lastOp.result = "done"
CurrentNotes ==
    IF located.measure \in DOMAIN noteMap THEN noteMap[located.measure] ELSE << >>

\* C9: after a completed PLAYBACK frame every mapped note of the current
\* measure has the highlight colour exactly when
\* timestamp - 0.04 <= highlightProgress <= timestamp + 0.01, and the
\* default colour otherwise
C9_HighlightWindow ==
    (FrameCompleted /\ mode = "PLAYBACK") =>
        \A i \in 1..Len(CurrentNotes) :
            color[CurrentNotes[i].element] =
                IF InHighlightWindow(FrameHighlightProgress,
                                     CurrentNotes[i].timestamp)
                THEN HighlightColor ELSE DefaultColor

C9_Witness ==
    /\ FrameCompleted
    /\ mode = "PLAYBACK"
    /\ located = [measure |-> 2, progress |-> Rat(1, 2)]
    /\ color[2] = DefaultColor
    /\ color[3] = HighlightColor

\* C10: after a RECORD frame that reached the highlighting stage, every
\* mapped note of the current measure has the default colour and opacity 1,
\* in both viewers
C10_RecordResetsNotes ==
    (lastOp.op = "frame" /\ lastOp.result # "skipped" /\ mode = "RECORD") =>
        \A i \in 1..Len(CurrentNotes) :
            /\ color[CurrentNotes[i].element] = DefaultColor
            /\ opacity[CurrentNotes[i].element] = 1

\* C19: a frame that gets past its early returns runs the visibility sweep
\* exactly when note reveal is on and the measure it located is not the one
\* the last such frame recorded; it then records its own measure.  No other
\* step changes the recorded measure, which starts at -1, so with reveal on
\* the first frame sweeps and a frame in the measure of the frame before it
\* does not
C19_SweepOnMeasureChange ==
    /\ lastMeasureIndex = -1
    /\ [][ IF lastOp'.op = "frame" /\ lastOp'.result # "skipped"
           THEN /\ (lastOp'.swept # 0) <=>
                       (RevealOn(revealMode)
                            /\ located'.measure - 1 # lastMeasureIndex)
                /\ lastOp'.swept # 0 => lastOp'.swept = located'.measure
                /\ lastMeasureIndex = -1 /\ RevealOn(revealMode) =>
                       lastOp'.swept # 0
                /\ lastMeasureIndex' = located'.measure - 1
           ELSE /\ lastMeasureIndex' = lastMeasureIndex
                /\ lastOp'.op = "frame" => lastOp'.swept = 0 ]_vars

\* a frame stayed in measure 2 with reveal on and swept nothing
C19_Witness ==
    /\ FrameCompleted
    /\ RevealOn(revealMode)
    /\ lastOp.swept = 0
    /\ located.measure = 2
    /\ lastMeasureIndex = 1

\* hp < timestamp - 0.04, in integers
BeyondLookahead(hp, ts) ==
    100 * hp[1] * ts[2] < (100 * ts[1] - 4 * ts[2]) * hp[2]

\* C20: after a completed PLAYBACK frame with note reveal on, every mapped
\* note of the current measure has opacity 0 exactly when
\* highlightProgress < timestamp - 0.04 and opacity 1 otherwise, so none of
\* them has the highlight colour and opacity 0
C20_LookaheadHiding ==
    (FrameCompleted /\ mode = "PLAYBACK" /\ RevealOn(revealMode)) =>
        \A i \in 1..Len(CurrentNotes) :
            LET el == CurrentNotes[i].element
            IN  /\ opacity[el] =
                      IF BeyondLookahead(FrameHighlightProgress,
                                         CurrentNotes[i].timestamp)
                      THEN 0 ELSE 1
                /\ color[el] = HighlightColor => opacity[el] = 1

\* halfway through measure 2 one note is exactly the lookahead ahead and
\* shown, highlighted
C20_Witness ==
    /\ FrameCompleted
    /\ mode = "PLAYBACK"
    /\ RevealOn(revealMode)
    /\ located = [measure |-> 2, progress |-> Rat(1, 2)]
    /\ \E i \in 1..Len(CurrentNotes) :
          /\ RatEq(RatSub(CurrentNotes[i].timestamp, Lookahead),
                   FrameHighlightProgress)
          /\ opacity[CurrentNotes[i].element] = 1
          /\ color[CurrentNotes[i].element] = HighlightColor

\* C25: after a completed PLAYBACK frame every mapped note that has the
\* highlight colour is a note of the current measure
C25_HighlightOnlyInCurrentMeasure ==
    (FrameCompleted /\ mode = "PLAYBACK") =>
        \A m \in DOMAIN noteMap : \A i \in 1..Len(noteMap[m]) :
            color[noteMap[m][i].element] = HighlightColor => m = located.measure

----------------------------------------------------------------------------
(* Reveal mode across re-renders: the load, its 100 ms re-render, frames and
   reveal-mode switches, with the audio at rest inside one measure *)

NextReveal ==
    \/ \E g \in 1..Len(loads) : LoadResolved(g)
    \/ \E g \in 1..Len(loads) : RenderTimerFires(g)
    \/ FrameStep
    \/ \E r \in RevealModes : SetRevealMode(r)
    \/ SetUrl

SpecReveal == InitLoop /\ [][NextReveal]_vars

\* C26: while reveal mode is on, after every completed frame every mapped
\* glyph of a measure after the current one has opacity 0, whatever frames,
\* reveal-mode switches, re-renders and Geometry Mapper rebuilds came before
C26_FutureMeasuresHidden ==
    (FrameCompleted /\ RevealOn(revealMode)) =>
        \A m \in 1..Len(sheet) :
            m > located.measure =>
                \A e \in MappedGlyphs(m) : opacity[e] = 0

----------------------------------------------------------------------------
(* Geometry Mapper of the boolean-reveal viewer: beams over note maps whose
   keys need not be 1..n *)

\* sheets in which any staff measure may have no width or no mapped note
BeamSheets ==
    { [m \in 1..Len(MeasureList) |->
          [k \in 1..Len(MeasureList[m]) |->
              Malformed(MeasureList[m][k], f[<<m, k>>])]] :
      f \in [StaffPositions -> {"ok", "noNotes", "zeroWidth"}] }

InitBeams ==
    /\ variant = "bool"
    /\ sheet \in BeamSheets
    /\ anchors = << Anchor(1, 0) >>
    /\ cbAnchors = anchors
    /\ mode = "PLAYBACK"
    /\ revealMode = "OFF"
    /\ prevRevealMode = "OFF"
    /\ audioTime = 0
    /\ isLoaded = FALSE
    /\ lastMeasureIndex = -1
    /\ noteMap = << >>
    /\ glyphMap = << >>
    /\ opacity = [e \in Elements |-> 1]
    /\ color = [e \in Elements |-> DefaultColor]
    /\ located = NoLocation
    /\ lastOp = Op("idle", "done", 0)
    /\ ScrollAtRest(WideContainer)
    /\ mounted = TRUE
    /\ osmdRef = 1
    /\ loads = << "resolved" >>
    /\ rafPending = FALSE
    /\ rafOrphans = 0
    /\ NoTimers
    /\ mapRuns = 0
    /\ OutsideIdle

NextBeams == Remap

SpecBeams == InitBeams /\ [][NextBeams]_vars

\* the measures with mapped notes whose note extent
\* [first note left - 10, last note right + 10] holds the left edge of beam b
ExtentsHolding(b) ==
    { m \in DOMAIN noteMap :
        /\ Dom[b].left >= Dom[noteMap[m][1].element].left - 10
        /\ Dom[b].left <= GlyphRight(noteMap[m][Len(noteMap[m])].element) + 10 }

\* C27: after a Geometry Mapper pass of the boolean-reveal viewer every beam
\* is once in the list of the lowest-numbered measure with mapped notes whose
\* note extent holds the beam's left edge, and in no other list, also when
\* lower-numbered measures have no mapped notes
C27_BeamInLowestMeasure ==
    (lastOp.op = "map" /\ lastOp.result = "done" /\ variant = "bool") =>
        \A b \in Elements : Dom[b].cls = "vf-beam" =>
            \A m \in 1..Len(sheet) :
                TimesListed(b, m) =
                    IF m \in ExtentsHolding(b) /\ \A n \in ExtentsHolding(b) : m <= n
                    THEN 1 ELSE 0

====
